---- MODULE Spec2Model ----
(***************************************************************************)
(* FitRealm: the character / quest / guild-event progression logic of the  *)
(* client screens, modelled over the remote tables they read and write.    *)
(*                                                                         *)
(*   Spec        CharacterScreen.tsx + QuestScreen.tsx over the            *)
(*               `characters` and `quests` tables (one signed-in user).    *)
(*   SpecLegacy  the earlier CharacterScreen and QuestScreen (part_000,    *)
(*               part_004): mock quests, the character kept locally.       *)
(*   SpecGuild   GuildEventsScreen (part_002) opened by several members    *)
(*               of one guild over `guilds` and `guild_events`.            *)
(*   SpecRewards RewardsScreen (part_005) over `quests` and `rewards`:     *)
(*               fetchData, checkForNewRewards, generateNewRewards.        *)
(*   SpecGenerate QuestScreen.tsx mounting with one open quest: the refill *)
(*               of the list by generateNewQuests and generateQuest.       *)
(*   SpecRefill  QuestScreen.tsx with completions, the Generate button and *)
(*               the refill running together; SpecRefillOk is the same     *)
(*               with every request of the refill answered successfully.   *)
(*   SpecCreateEvent CreateEventScreen (part_010): the form, validateForm  *)
(*               and handleSubmit, next to character creation.             *)
(*   SpecMembers GuildScreen.joinGuild (part_007) and GuildDetailsScreen   *)
(*               over `guild_members` and guilds.member_count.             *)
(*   SpecChat    GuildChatScreen over `guild_messages` and its realtime    *)
(*               channel.                                                  *)
(*                                                                         *)
(* Spec leaves the refill of the quest list out; the effect on             *)
(* [quests, loading] is conjoined to the handlers in SpecGenerate and      *)
(* SpecRefill.                                                             *)
(*                                                                         *)
(* In Spec and SpecLegacy every handler is an operation that can be called *)
(* with any argument of its parameter type; what it does is decided by the *)
(* checks the handler itself makes; createCharacter and logWorkout are not *)
(* called while their buttons are disabled by `loading`.  In SpecGuild     *)
(* joinEvent and completeEvent are called through the buttons that         *)
(* renderEventItem enables.                                                *)
(* An await on the store is a step of its own: the request is in flight    *)
(* until the step that applies it and runs the continuation, which works   *)
(* on the state the handler captured when it was called.                   *)
(***************************************************************************)
EXTENDS Integers, Sequences, FiniteSets, TLC

VARIABLES
    characters,          \* rows of table `characters` for the user
    questsTable,         \* rows of table `quests` for the user
    granted,             \* per quest id: the xp amounts character updates added for it
    csPc,                \* CharacterScreen: "initialLoad" | "ready"
    csCharacter,         \* CharacterScreen.character (<<>> is null)
    csSelectedClass,     \* CharacterScreen.selectedClass
    csLoading,           \* CharacterScreen.loading
    lwInFlight,          \* logWorkout activations awaiting the update
    calls,               \* handler calls made that got past their early returns
    qsPc,                \* QuestScreen: "unmounted" | "fetchCharacter" | "fetchQuests" | "ready"
    qsCharacter,         \* QuestScreen.character (<<>> is null)
    qsQuests,            \* QuestScreen.quests
    qsCompletedQuests,   \* QuestScreen.completedQuests
    cqInFlight,          \* completeQuest activations awaiting a write
    cqPc,                \* per quest id: where its completeQuest activation stands
    lcPc,                \* earlier CharacterScreen: "initialLoad" | "ready"
    lcCharacter,         \* earlier CharacterScreen.character (<<>> is null)
    lcLoading,           \* earlier CharacterScreen.loading
    lcInFlight,          \* earlier logWorkout activation awaiting the update
    lqPc,                \* earlier QuestScreen: "unmounted" | "ready"
    lqCharacter,         \* earlier QuestScreen.character (<<>> is null)
    lqQuests,            \* earlier QuestScreen.quests
    rewards,             \* ids of the rewards held by the AuthProvider
    guilds,              \* the row of table `guilds` for the guild
    guild_events,        \* rows of table `guild_events` for the guild
    gePc,                \* per client: "unmounted" | "fetchEvents" | "ready"
    guildData,           \* per client: GuildEventsScreen.guildData (<<>> is null)
    events,              \* per client: GuildEventsScreen.events
    joining,             \* per client: GuildEventsScreen.joining (0 is null)
    completingEvent,     \* per client: GuildEventsScreen.completingEvent (0 is null)
    joinOp,              \* per client: joinEvent activation awaiting the store
    completeOp,          \* per client: completeEvent activation awaiting the store
    rewardsTable,        \* rows of table `rewards` for the user
    now,                 \* the clock new Date() reads, advanced by every dated write
    rsPc,                \* RewardsScreen: "unmounted" | "fetchRewards" | "ready"
    rsCompletedQuests,   \* RewardsScreen.completedQuests
    questCounts,         \* RewardsScreen.questCounts
    availableRewards,    \* RewardsScreen.availableRewards
    rsRewards,           \* the AuthProvider's rewards as RewardsScreen sets them
    checkRuns,           \* checkForNewRewards activations in flight
    gnrPc,               \* generateNewRewards: "idle" | "request" | "insert" | "refetch" | "done" | "failed"
    gnrNewRewards,       \* generateNewRewards.newRewards
    generatingQuest,     \* QuestScreen.generatingQuest
    newQuests,           \* generateNewQuests.newQuests
    genCount,            \* generateNewQuests: quests its loop has yet to generate
    genPc,               \* generateNewQuests: "idle" | "getUser" | "loop"
    genInFlight,         \* generateNewQuests activations between guard and finally
    completionStats,     \* QuestScreen.completionStats
    guild_members,       \* rows of table `guild_members` for the guild
    member_count,        \* guilds.member_count of the guild
    jgPc,                \* per client: GuildScreen.joinGuild, "idle" | "insert"
    gdPc,                \* per client: GuildDetailsScreen, "unmounted" | "fetchMembers" | "ready" | "confirm" | "delete" | "count"
    gdGuild,             \* per client: GuildDetailsScreen.guild (<<>> is null)
    gdUserRole,          \* per client: GuildDetailsScreen.userRole ("" is null)
    guild_messages,      \* ids of the rows of table `guild_messages` for the guild, in insertion order
    chPc,                \* GuildChatScreen: "unmounted" | "select" | "result" | "ready"
    chSubscribed,        \* the realtime channel has joined
    chData,              \* fetchMessages: the answer of the select on its way back
    chPayloads,          \* realtime INSERT payloads on their way to the callback
    chMessages,          \* GuildChatScreen.messages
    cePc,                \* CreateEventScreen: "form" | "submitting" | "alert"
    ceSession,           \* CreateEventScreen: whether user and route guildId are set
    ceFormData,          \* CreateEventScreen.formData
    ceErrors,            \* CreateEventScreen.errors ("" is undefined)
    ceNewEvent           \* handleSubmit.newEvent (<<>> before one is built)

vars == << characters, questsTable, granted,
           csPc, csCharacter, csSelectedClass, csLoading, lwInFlight, calls,
           qsPc, qsCharacter, qsQuests, qsCompletedQuests, cqInFlight, cqPc,
           lcPc, lcCharacter, lcLoading, lcInFlight,
           lqPc, lqCharacter, lqQuests, rewards,
           guilds, guild_events, gePc, guildData, events,
           joining, completingEvent, joinOp, completeOp,
           rewardsTable, now, rsPc, rsCompletedQuests, questCounts,
           availableRewards, rsRewards, checkRuns, gnrPc, gnrNewRewards,
           generatingQuest, newQuests, genCount, genPc, genInFlight,
           completionStats,
           guild_members, member_count, jgPc, gdPc, gdGuild, gdUserRole,
           guild_messages, chPc, chSubscribed, chData, chPayloads, chMessages,
           cePc, ceSession, ceFormData, ceErrors, ceNewEvent >>

dbVars == << characters, questsTable, granted >>
csVars == << csPc, csCharacter, csSelectedClass, csLoading, lwInFlight >>
qsVars == << qsPc, qsCharacter, qsQuests, qsCompletedQuests, cqInFlight, cqPc >>
legacyVars == << lcPc, lcCharacter, lcLoading, lcInFlight,
                 lqPc, lqCharacter, lqQuests, rewards >>
guildVars == << guilds, guild_events, gePc, guildData, events,
                joining, completingEvent, joinOp, completeOp >>
rewardVars == << rewardsTable, now, rsPc, rsCompletedQuests, questCounts,
                 availableRewards, rsRewards, checkRuns, gnrPc, gnrNewRewards >>
genVars == << generatingQuest, newQuests, genCount, genPc, genInFlight >>
statVars == << completionStats >>
memberVars == << guild_members, member_count, jgPc, gdPc, gdGuild, gdUserRole >>
chatVars == << guild_messages, chPc, chSubscribed, chData, chPayloads, chMessages >>
createVars == << cePc, ceSession, ceFormData, ceErrors, ceNewEvent >>

----------------------------------------------------------------------------
(* Bounds of the model *)

\* handler calls per behaviour of the character and quest screens
MaxCalls == 4

\* handler calls per behaviour of the guild events screens
MaxGuildCalls == 4

\* clients with the guild events screen open
NumClients == 2

\* the last hour on the clock at which the event form is submitted
MaxClock == 2
MaxMessages == 4

----------------------------------------------------------------------------
(* Constants of the program *)

QUEST_TYPES == << "strength", "speed", "magic", "willpower" >>

QuestTypes == { QUEST_TYPES[i] : i \in DOMAIN QUEST_TYPES }

QUEST_DIFFICULTIES ==
    << [name |-> "easy",   lo |-> 50,  hi |-> 150],
       [name |-> "medium", lo |-> 150, hi |-> 250],
       [name |-> "hard",   lo |-> 250, hi |-> 400] >>

CHARACTER_CLASSES ==
    << [name |-> "Warrior", statBonus |-> "strength"],
       [name |-> "Rogue",   statBonus |-> "speed"],
       [name |-> "Mage",    statBonus |-> "magic"],
       [name |-> "Monk",    statBonus |-> "willpower"] >>

NumInitialQuests == 3

QuestIds == 1 .. NumInitialQuests

----------------------------------------------------------------------------
(* Pure helpers *)

\* Math.floor(x * 1.2): in IEEE doubles this is floor(6x / 5) for every
\* integer x the program can hold here.
FloorBonus(x) == (x * 6) \div 5

\* A slip in the level formula: the "+ 1" is lost.
LevelForXP_NoPlusOne(xp) == xp \div 1000

\* Math.floor(newXP / 1000) + 1
LevelForXP(xp) == (xp \div 1000) + 1

getClassSpecialty(className) ==
    CASE className = "Warrior" -> "strength"
      [] className = "Rogue"   -> "speed"
      [] className = "Mage"    -> "magic"
      [] className = "Monk"    -> "willpower"
      [] OTHER                 -> "strength"

\* CHARACTER_CLASSES.find(c => c.name === characterClass)?.statBonus === type
ClassStatBonusIs(characterClass, type) ==
    \E i \in DOMAIN CHARACTER_CLASSES :
        /\ CHARACTER_CLASSES[i].name = characterClass
        /\ CHARACTER_CLASSES[i].statBonus = type

\* stats.reduce((prev, curr) => data[curr] > data[prev] ? curr : prev, stats[0])
\* followed by findIndex: the 0-based index of the first highest stat.
HighestStatIndex(row) ==
    LET pick(prev, curr) ==
            IF row[QUEST_TYPES[curr]] > row[QUEST_TYPES[prev]] THEN curr ELSE prev
    IN  pick(pick(pick(1, 2), 3), 4) - 1

\* { ...row, ...updates }: the row with the columns of `updates` replaced.
ApplyUpdates(row, updates) ==
    [f \in DOMAIN row |-> IF f \in DOMAIN updates THEN updates[f] ELSE row[f]]

\* .single(): the row when exactly one matches, otherwise no data.
Single(rows) == IF Len(rows) = 1 THEN << rows[1] >> ELSE << >>

\* What the content request of generateQuest can come to: the request or
\* res.json() throws; the response has no choices; the text holds braces
\* around something that is not JSON; the text holds no braces; the text
\* holds a JSON object with a title and a description; the text holds a JSON
\* object without them.
QuestReplies == { "throw", "nochoices", "badjson", "nomatch", "json", "nofields" }

ThrowingReplies_RequestOnly == { "throw" }

\* The replies on which the try block of generateQuest throws.
ThrowingReplies == { "throw", "nochoices", "badjson" }

\* One quest as generateQuest returns it.  typeIdx and diffIdx are the two
\* Math.floor(Math.random() * length) draws, pct is the third Math.random() in
\* hundredths, api is what the content request came to.  A text is the
\* sequence of its parts; << >> is undefined.
generateQuest(id, typeIdx, diffIdx, pct, api) ==
    LET type == QUEST_TYPES[typeIdx + 1]
        difficulty == QUEST_DIFFICULTIES[diffIdx + 1]
        template == << "Complete a", difficulty.name, type, "workout." >>
        parsed == IF api = "nomatch"
                  THEN [title |-> << "Epic", type, "Challenge" >>,
                        description |-> template]
                  ELSE IF api = "json"
                  THEN [title |-> << "generated" >>,
                        description |-> << "generated" >>]
                  ELSE [title |-> << >>, description |-> << >>]
    IN  IF api \in ThrowingReplies
        THEN [id |-> id, title |-> << "Fallback", type, "Quest" >>,
              description |-> template, type |-> type,
              difficulty |-> difficulty.name, xpReward |-> 100,
              accepted |-> FALSE, completed |-> FALSE]
        ELSE [id |-> id,
              title |-> parsed.title,
              description |-> parsed.description,
              type |-> type,
              difficulty |-> difficulty.name,
              xpReward |-> ((pct * (difficulty.hi - difficulty.lo)) \div 100)
                              + difficulty.lo,
              accepted |-> FALSE, completed |-> FALSE]

\* The classes picked on the creation form in this model.
ClassChoices == { 0, 2 }

\* The workout buttons pressed in this model.
WorkoutTypes == { "strength", "magic" }

\* The draws the quest generator is given in this model.
QuestDraws ==
    { [typeIdx |-> 0, diffIdx |-> 2, pct |-> 99, api |-> "json"] }

Generated(id, d) == generateQuest(id, d.typeIdx, d.diffIdx, d.pct, d.api)

----------------------------------------------------------------------------
(* The guild and its clients *)

Clients == 1 .. NumClients

\* The guild's row when the screens open: created with level 1 and xp 0,
\* it has since taken the rewards of earlier events.
GuildRow == [xp |-> 950, level |-> 1]

\* The guild's events when the screens open, ordered by start_date: one that
\* nobody joined yet and one that a member joined before.
StoredEvents ==
    << [id |-> 1, status |-> "upcoming", participants_count |-> 0, xp_reward |-> 150],
       [id |-> 2, status |-> "active",   participants_count |-> 1, xp_reward |-> 50] >>

EventIds == { StoredEvents[i].id : i \in DOMAIN StoredEvents }

----------------------------------------------------------------------------
(* Initial state *)

\* The row an account holds when its hero was created by the first
\* CharacterScreen: no class column, every stat 0.
ClasslessRow ==
    [class |-> "", xp |-> 0, level |-> 1,
     strength |-> 0, speed |-> 0, magic |-> 0, willpower |-> 0]

\* Quests a previous visit of the Quests tab stored.
StoredQuests ==
    { generateQuest(1, 0, 2, 99, "json"),
      generateQuest(2, 1, 0, 0, "throw"),
      generateQuest(3, 2, 1, 50, "nomatch") }

\* The guild's members when the screens open: user 1 founded the guild, a
\* user outside Clients joined it; user 2 is not a member.
StoredMembers ==
    { [user_id |-> 1, role |-> "leader"], [user_id |-> 0, role |-> "member"] }

\* The guild's messages when the chat opens.
StoredMessages == << 1 >>

\* The fields of the event form that validateForm can flag.
ErrorFields == { "title", "description", "reward_description", "xp_reward",
                 "start_date", "end_date", "goal" }

\* useAuth().user and route.params.guildId are both set.
SignedIn == [user |-> TRUE, guildId |-> TRUE]

\* The screens before they mount, and the guild's tables.
ScreensInit ==
    /\ granted = [q \in QuestIds |-> << >>]
    /\ csPc = "initialLoad"
    /\ csCharacter = << >>
    /\ csSelectedClass = 0
    /\ csLoading = FALSE
    /\ lwInFlight = << >>
    /\ calls = 0
    /\ qsPc = "unmounted"
    /\ qsCharacter = << >>
    /\ qsQuests = << >>
    /\ qsCompletedQuests = << >>
    /\ cqInFlight = {}
    /\ cqPc = [q \in QuestIds |-> "none"]
    /\ lcPc = "initialLoad"
    /\ lcCharacter = << >>
    /\ lcLoading = FALSE
    /\ lcInFlight = << >>
    /\ lqPc = "unmounted"
    /\ lqCharacter = << >>
    /\ lqQuests = << >>
    /\ rewards = {}
    /\ guilds = GuildRow
    /\ guild_events = StoredEvents
    /\ gePc = [c \in Clients |-> "unmounted"]
    /\ guildData = [c \in Clients |-> << >>]
    /\ events = [c \in Clients |-> << >>]
    /\ joining = [c \in Clients |-> 0]
    /\ completingEvent = [c \in Clients |-> 0]
    /\ joinOp = [c \in Clients |-> << >>]
    /\ completeOp = [c \in Clients |-> << >>]
    /\ now = 1
    /\ rsPc = "unmounted"
    /\ rsCompletedQuests = << >>
    /\ questCounts = [t \in QuestTypes |-> 0]
    /\ availableRewards = << >>
    /\ rsRewards = << >>
    /\ checkRuns = << >>
    /\ gnrPc = "idle"
    /\ gnrNewRewards = << >>
    /\ generatingQuest = FALSE
    /\ newQuests = << >>
    /\ genCount = 0
    /\ genPc = "idle"
    /\ genInFlight = 0
    /\ completionStats = [t \in QuestTypes |-> 0]
    /\ guild_members = StoredMembers
    /\ member_count = Cardinality(StoredMembers)
    /\ jgPc = [c \in Clients |-> "idle"]
    /\ gdPc = [c \in Clients |-> "unmounted"]
    /\ gdGuild = [c \in Clients |-> << >>]
    /\ gdUserRole = [c \in Clients |-> ""]
    /\ guild_messages = StoredMessages
    /\ chPc = "unmounted"
    /\ chSubscribed = FALSE
    /\ chData = << >>
    /\ chPayloads = << >>
    /\ chMessages = << >>
    /\ cePc = "form"
    /\ ceFormData = [title |-> << >>, description |-> << >>,
                     start_date |-> now + 1, end_date |-> now + 24,
                     reward_description |-> << >>, xp_reward |-> 100,
                     has_goal |-> FALSE, goal |-> << >>]
    /\ ceErrors = [f \in ErrorFields |-> ""]
    /\ ceNewEvent = << >>

Init ==
    /\ \/ characters = << >> /\ questsTable = {}
       \/ characters = << ClasslessRow >> /\ questsTable = StoredQuests
    /\ rewardsTable = << >>
    /\ ceSession = SignedIn
    /\ ScreensInit

----------------------------------------------------------------------------
(* The store *)

\* characters.update(updates).eq(<the user's row>).select(): every matching
\* row takes the updates; the updated rows are returned.
UpdatedCharacters(updates) ==
    [i \in DOMAIN characters |-> ApplyUpdates(characters[i], updates)]

\* quests.update(columns).eq('id', id)
UpdatedQuests(id, updates) ==
    { IF r.id = id THEN ApplyUpdates(r, updates) ELSE r : r \in questsTable }

----------------------------------------------------------------------------
(* CharacterScreen *)

Loaded_OrDefault(held) ==
    IF held = << >> THEN { ClasslessRow } ELSE { held[1] }

\* `character` as a handler reads it after `if (!character) return`: the
\* character it holds, none when the state is null.
Loaded(held) == { held[i] : i \in DOMAIN held }

\* useEffect -> fetchCharacter.  ok: whether the select was answered; when it
\* was not, data is null and the error is logged.
FetchCharacter(ok) ==
    /\ csPc = "initialLoad"
    /\ LET data == IF ok THEN Single(characters) ELSE << >>
       IN  /\ csCharacter' = data
           /\ csSelectedClass' =
                 IF data # << >> THEN HighestStatIndex(data[1]) ELSE csSelectedClass
    /\ csPc' = "ready"
    /\ UNCHANGED << csLoading, lwInFlight >>
    /\ UNCHANGED dbVars
    /\ UNCHANGED qsVars
    /\ UNCHANGED << legacyVars, guildVars, rewardVars, genVars, createVars, statVars, memberVars, chatVars >>
    /\ UNCHANGED calls

\* onPress={() => setSelectedClass(index)} of the creation form
SelectClass(index) ==
    /\ csPc = "ready"
    /\ csCharacter = << >>
    /\ csSelectedClass' = index
    /\ UNCHANGED << csPc, csCharacter, csLoading, lwInFlight >>
    /\ UNCHANGED dbVars
    /\ UNCHANGED qsVars
    /\ UNCHANGED << legacyVars, guildVars, rewardVars, genVars, createVars, statVars, memberVars, chatVars >>
    /\ UNCHANGED calls

\* The row createCharacter inserts.
NewCharacterRow(selectedClass) ==
    [class |-> CHARACTER_CLASSES[selectedClass + 1].name,
     xp |-> 0, level |-> 1,
     strength  |-> IF selectedClass = 0 THEN 2 ELSE 0,
     speed     |-> IF selectedClass = 1 THEN 2 ELSE 0,
     magic     |-> IF selectedClass = 2 THEN 2 ELSE 0,
     willpower |-> IF selectedClass = 3 THEN 2 ELSE 0]

\* createCharacter, pressed on the creation form (rendered when the screen
\* holds no character).  name is the text of the name field, ok whether the
\* insert succeeded.
createCharacter(name, ok) ==
    /\ csPc = "ready"
    /\ csCharacter = << >>
    /\ ~csLoading
    /\ IF name = "" \/ ~ok
       THEN UNCHANGED << characters, csCharacter >>
       ELSE /\ characters' = Append(characters, NewCharacterRow(csSelectedClass))
            /\ csCharacter' = << NewCharacterRow(csSelectedClass) >>
    /\ UNCHANGED << questsTable, granted >>
    /\ UNCHANGED << csPc, csSelectedClass, csLoading, lwInFlight >>
    /\ UNCHANGED qsVars
    /\ UNCHANGED << legacyVars, guildVars, rewardVars, genVars, createVars, statVars, memberVars, chatVars >>
    /\ UNCHANGED calls

\* xpGain of logWorkout
WorkoutXpGain(character, selectedClass, type) ==
    LET characterClass ==
            IF character.class # "" THEN character.class
            ELSE CHARACTER_CLASSES[selectedClass + 1].name
    IN  IF ClassStatBonusIs(characterClass, type) THEN 120 ELSE 100

\* The updates object of logWorkout.
WorkoutUpdates(character, xpGain, type) ==
    LET newXP == character.xp + xpGain
        newLevel == LevelForXP(newXP)
    IN  ("xp" :> newXP) @@ ("level" :> newLevel) @@ (type :> character[type] + 1)

\* logWorkout(type) up to its await: the workout buttons are disabled while
\* loading is set.
logWorkout(type) ==
    /\ csPc = "ready"
    /\ ~csLoading
    /\ calls < MaxCalls
    /\ IF Loaded(csCharacter) = {}
       THEN UNCHANGED << csLoading, lwInFlight, calls >>
       ELSE LET character == CHOOSE c \in Loaded(csCharacter) : TRUE
                xpGain == WorkoutXpGain(character, csSelectedClass, type)
            IN  /\ calls' = calls + 1
                /\ csLoading' = TRUE
                /\ lwInFlight' =
                      << [type |-> type, xpGain |-> xpGain, base |-> character,
                          updates |-> WorkoutUpdates(character, xpGain, type)] >>
    /\ UNCHANGED << csPc, csCharacter, csSelectedClass >>
    /\ UNCHANGED dbVars
    /\ UNCHANGED qsVars
    /\ UNCHANGED << legacyVars, guildVars, rewardVars, genVars, createVars, statVars, memberVars, chatVars >>

\* logWorkout from the update's answer on: ok is whether the update succeeded.
logWorkoutUpdate(ok) ==
    /\ lwInFlight # << >>
    /\ LET op == lwInFlight[1]
           data == UpdatedCharacters(op.updates)
       IN  IF ok
           THEN /\ characters' = data
                /\ csCharacter' =
                      IF Len(data) > 0 THEN << data[1] >>
                      ELSE << ApplyUpdates(op.base, op.updates) >>
           ELSE UNCHANGED << characters, csCharacter >>
    /\ csLoading' = FALSE
    /\ lwInFlight' = << >>
    /\ UNCHANGED << questsTable, granted >>
    /\ UNCHANGED << csPc, csSelectedClass >>
    /\ UNCHANGED qsVars
    /\ UNCHANGED << legacyVars, guildVars, rewardVars, genVars, createVars, statVars, memberVars, chatVars >>
    /\ UNCHANGED calls

----------------------------------------------------------------------------
(* QuestScreen *)

\* fetchInitialData, first read: the character.
fetchInitialDataCharacter ==
    /\ qsPc \in {"unmounted", "fetchCharacter"}
    /\ qsCharacter' = Single(characters)
    /\ qsPc' = "fetchQuests"
    /\ UNCHANGED << qsQuests, qsCompletedQuests, cqInFlight, cqPc >>
    /\ UNCHANGED dbVars
    /\ UNCHANGED csVars
    /\ UNCHANGED << legacyVars, guildVars, rewardVars, genVars, createVars, statVars, memberVars, chatVars >>
    /\ UNCHANGED calls

\* A reduce the stats effect does not have: every quest counts for every type.
completionStatsReduce_AnyType(completedQuests) ==
    [t \in QuestTypes |-> Len(completedQuests)]

\* completedQuests.reduce(...) of the effect on [completedQuests].
completionStatsReduce(completedQuests) ==
    [t \in QuestTypes |->
        Cardinality({ i \in DOMAIN completedQuests : completedQuests[i].type = t })]

\* The effect on [completedQuests], run after a render with this list.
StatsEffect(completedQuests, stats) ==
    IF Len(completedQuests) > 0
    THEN completionStatsReduce(completedQuests)
    ELSE stats

\* fetchInitialData, second read: the quests; three are generated and
\* inserted when none is stored (insertOk: whether the insert succeeded).
\* The render that follows runs the effect on [quests, loading], which the
\* specification conjoins (QuestsEffect).
fetchInitialDataQuests(d1, d2, d3, insertOk) ==
    /\ qsPc = "fetchQuests"
    /\ IF questsTable = {}
       THEN LET initialQuests ==
                    << Generated(1, d1), Generated(2, d2), Generated(3, d3) >>
            IN  /\ questsTable' =
                      IF insertOk
                      THEN { initialQuests[i] : i \in DOMAIN initialQuests }
                      ELSE questsTable
                /\ qsQuests' = initialQuests
                /\ UNCHANGED qsCompletedQuests
       ELSE LET rows == CHOOSE s \in [1 .. Cardinality(questsTable) -> questsTable] :
                           \A i, j \in DOMAIN s : i < j => s[i].id < s[j].id
            IN  /\ qsQuests' = SelectSeq(rows, LAMBDA q : ~q.completed)
                /\ qsCompletedQuests' = SelectSeq(rows, LAMBDA q : q.completed)
                /\ UNCHANGED questsTable
    /\ qsPc' = "ready"
    /\ completionStats' = StatsEffect(qsCompletedQuests', completionStats)
    /\ UNCHANGED << qsCharacter, cqInFlight, cqPc >>
    /\ UNCHANGED << characters, granted >>
    /\ UNCHANGED csVars
    /\ UNCHANGED << legacyVars, guildVars, rewardVars, createVars, memberVars, chatVars >>
    /\ UNCHANGED calls

\* A guard completeQuest does not have: only accepted quests are found.
HasQuest_AcceptedOnly(quests, questId) ==
    \E i \in DOMAIN quests : quests[i].id = questId /\ quests[i].accepted

HasQuest(quests, questId) == \E i \in DOMAIN quests : quests[i].id = questId

\* quests.find(q => q.id === questId)
FindQuest(quests, questId) ==
    quests[CHOOSE i \in DOMAIN quests :
              /\ quests[i].id = questId
              /\ \A j \in DOMAIN quests : quests[j].id = questId => i <= j]

\* A slip in the map of acceptQuest: the id test is lost.
AcceptedQuests_EveryQuest(quests, questId) ==
    [i \in DOMAIN quests |-> [quests[i] EXCEPT !.accepted = TRUE]]

\* quests.map(q => q.id === questId ? { ...q, accepted: true } : q)
AcceptedQuests(quests, questId) ==
    [i \in DOMAIN quests |->
        IF quests[i].id = questId
        THEN [quests[i] EXCEPT !.accepted = TRUE]
        ELSE quests[i]]

\* acceptQuest(questId); ok is whether the update of the quest succeeded.
acceptQuest(questId, ok) ==
    /\ qsPc = "ready"
    /\ calls < MaxCalls
    /\ calls' = calls + 1
    /\ qsQuests' = AcceptedQuests(qsQuests, questId)
    /\ questsTable' =
          IF qsCharacter # << >> /\ HasQuest(qsQuests, questId) /\ ok
          THEN UpdatedQuests(questId, "accepted" :> TRUE)
          ELSE questsTable
    /\ UNCHANGED << qsPc, qsCharacter, qsCompletedQuests, cqInFlight, cqPc >>
    /\ UNCHANGED << characters, granted >>
    /\ UNCHANGED csVars
    /\ UNCHANGED << legacyVars, guildVars, rewardVars, genVars, createVars, statVars, memberVars, chatVars >>

\* xpGain of completeQuest
QuestXpGain(character, quest) ==
    IF quest.type = getClassSpecialty(character.class)
    THEN FloorBonus(quest.xpReward)
    ELSE quest.xpReward

\* characterUpdates of completeQuest
QuestCharacterUpdates(character, quest, xpGain) ==
    LET newXP == character.xp + xpGain
        newLevel == LevelForXP(newXP)
        didLevelUp == newLevel > character.level
        base == ("xp" :> newXP) @@ ("level" :> newLevel)
    IN  IF didLevelUp
        THEN base @@ (quest.type :> character[quest.type] + 1)
        ELSE base

\* completeQuest(questId) up to its first await.  The render that follows
\* runs the effect on [quests, loading], which the specification conjoins.
completeQuest(questId) ==
    /\ qsPc = "ready"
    /\ calls < MaxCalls
    /\ IF Loaded(qsCharacter) = {} \/ ~HasQuest(qsQuests, questId)
       THEN UNCHANGED << qsQuests, qsCompletedQuests, cqInFlight, cqPc, calls >>
       ELSE LET character == CHOOSE c \in Loaded(qsCharacter) : TRUE
                quest == FindQuest(qsQuests, questId)
                xpGain == QuestXpGain(character, quest)
            IN  /\ calls' = calls + 1
                /\ qsQuests' = SelectSeq(qsQuests, LAMBDA q : q.id # questId)
                /\ qsCompletedQuests' =
                      Append(qsCompletedQuests, [quest EXCEPT !.completed = TRUE])
                /\ cqInFlight' = cqInFlight \cup
                      { [questId |-> questId,
                         quest |-> quest, xpGain |-> xpGain, base |-> character,
                         updates |-> QuestCharacterUpdates(character, quest, xpGain)] }
                /\ cqPc' = [cqPc EXCEPT ![questId] = "questUpdate"]
    /\ completionStats' = StatsEffect(qsCompletedQuests', completionStats)
    /\ UNCHANGED << qsPc, qsCharacter >>
    /\ UNCHANGED dbVars
    /\ UNCHANGED csVars
    /\ UNCHANGED << legacyVars, guildVars, rewardVars, createVars, memberVars, chatVars >>

\* completeQuest from the answer of the quest update on.
completeQuestQuestUpdate(op, ok) ==
    /\ op \in cqInFlight
    /\ cqPc[op.questId] = "questUpdate"
    /\ IF ok
       THEN /\ questsTable' = UpdatedQuests(op.questId, "completed" :> TRUE)
            /\ cqPc' = [cqPc EXCEPT ![op.questId] = "characterUpdate"]
            /\ UNCHANGED cqInFlight
       ELSE /\ UNCHANGED questsTable
            /\ cqPc' = [cqPc EXCEPT ![op.questId] = "questError"]
            /\ cqInFlight' = cqInFlight \ {op}
    /\ UNCHANGED << qsPc, qsCharacter, qsQuests, qsCompletedQuests >>
    /\ UNCHANGED << characters, granted >>
    /\ UNCHANGED csVars
    /\ UNCHANGED << legacyVars, guildVars, rewardVars, genVars, createVars, statVars, memberVars, chatVars >>
    /\ UNCHANGED calls

\* completeQuest from the answer of the character update on.
completeQuestCharacterUpdate(op, ok) ==
    /\ op \in cqInFlight
    /\ cqPc[op.questId] = "characterUpdate"
    /\ LET updatedCharacter == UpdatedCharacters(op.updates)
       IN  IF ok
           THEN /\ characters' = updatedCharacter
                /\ granted' = [granted EXCEPT
                                  ![op.questId] = Append(@, op.updates["xp"] - op.base.xp)]
                /\ qsCharacter' =
                      IF Len(updatedCharacter) > 0 THEN << updatedCharacter[1] >>
                      ELSE << ApplyUpdates(op.base, op.updates) >>
           ELSE UNCHANGED << characters, granted, qsCharacter >>
    /\ cqInFlight' = cqInFlight \ {op}
    /\ cqPc' = [cqPc EXCEPT ![op.questId] = IF ok THEN "done" ELSE "characterError"]
    /\ UNCHANGED << qsPc, qsQuests, qsCompletedQuests >>
    /\ UNCHANGED questsTable
    /\ UNCHANGED csVars
    /\ UNCHANGED << legacyVars, guildVars, rewardVars, genVars, createVars, statVars, memberVars, chatVars >>
    /\ UNCHANGED calls

----------------------------------------------------------------------------
(* Specification of the character and quest screens *)

Next ==
    \/ \E ok \in BOOLEAN : FetchCharacter(ok)
    \/ \E index \in ClassChoices : SelectClass(index)
    \/ \E name \in {"", "Hero"}, ok \in BOOLEAN : createCharacter(name, ok)
    \/ \E type \in WorkoutTypes : logWorkout(type)
    \/ \E ok \in BOOLEAN : logWorkoutUpdate(ok)
    \/ fetchInitialDataCharacter
    \/ \E d1, d2, d3 \in QuestDraws, insertOk \in BOOLEAN :
          fetchInitialDataQuests(d1, d2, d3, insertOk) /\ UNCHANGED genVars
    \/ \E questId \in QuestIds, ok \in BOOLEAN : acceptQuest(questId, ok)
    \/ \E questId \in QuestIds : completeQuest(questId) /\ UNCHANGED genVars
    \/ \E op \in cqInFlight, ok \in BOOLEAN : completeQuestQuestUpdate(op, ok)
    \/ \E op \in cqInFlight, ok \in BOOLEAN : completeQuestCharacterUpdate(op, ok)

Spec == Init /\ [][Next]_vars

----------------------------------------------------------------------------
(* The earlier character and quest screens (part_000, part_004)            *)

MOCK_QUESTS ==
    << [id |-> 1, title |-> "The Iron Challenge", type |-> "strength",
        difficulty |-> "medium", xpReward |-> 200,
        accepted |-> FALSE, completed |-> FALSE],
       [id |-> 2, title |-> "Swift as Wind", type |-> "speed",
        difficulty |-> "easy", xpReward |-> 100,
        accepted |-> FALSE, completed |-> FALSE],
       [id |-> 3, title |-> "Arcane Flexibility", type |-> "magic",
        difficulty |-> "hard", xpReward |-> 300,
        accepted |-> FALSE, completed |-> FALSE] >>

\* condition: quests.filter(q => q.type === type && q.completed).length >= atLeast
MOCK_REWARDS ==
    << [id |-> 1, title |-> "Strength Mastery", type |-> "strength", atLeast |-> 3],
       [id |-> 2, title |-> "Cardio Champion",  type |-> "speed",    atLeast |-> 5],
       [id |-> 3, title |-> "Yoga Guru",        type |-> "magic",    atLeast |-> 2] >>

RewardCondition(reward, quests) ==
    Cardinality({ i \in DOMAIN quests :
                    quests[i].type = reward.type /\ quests[i].completed })
        >= reward.atLeast

\* MOCK_REWARDS.filter(reward => reward.condition(updatedQuests)
\*                               && !rewards.some(r => r.id === reward.id))
EarnedRewards(updatedQuests, heldRewards) ==
    { MOCK_REWARDS[i].id : i \in
        { j \in DOMAIN MOCK_REWARDS :
            /\ RewardCondition(MOCK_REWARDS[j], updatedQuests)
            /\ MOCK_REWARDS[j].id \notin heldRewards } }

\* The effect that loads the character when the screen mounts.
fetchCharacterLegacy ==
    /\ lcPc = "initialLoad"
    /\ lcCharacter' = Single(characters)
    /\ lcPc' = "ready"
    /\ UNCHANGED << lcLoading, lcInFlight >>
    /\ UNCHANGED << lqPc, lqCharacter, lqQuests, rewards >>
    /\ UNCHANGED << dbVars, csVars, qsVars, guildVars, rewardVars, genVars, createVars, statVars, memberVars, chatVars, calls >>

\* createCharacter of the earlier screen: the row has no class.
createCharacterLegacy(name, ok) ==
    /\ lcPc = "ready"
    /\ lcCharacter = << >>
    /\ ~lcLoading
    /\ IF name = "" \/ ~ok
       THEN UNCHANGED << characters, lcCharacter >>
       ELSE /\ characters' = Append(characters, ClasslessRow)
            /\ lcCharacter' = << ClasslessRow >>
    /\ UNCHANGED << lcPc, lcLoading, lcInFlight >>
    /\ UNCHANGED << lqPc, lqCharacter, lqQuests, rewards >>
    /\ UNCHANGED << questsTable, granted, csVars, qsVars, guildVars, rewardVars, genVars, createVars, statVars, memberVars, chatVars, calls >>

\* updates of the earlier logWorkout: always 100 xp and one stat point.
LegacyWorkoutUpdates(character, type) ==
    ("xp" :> character.xp + 100)
        @@ ("level" :> LevelForXP(character.xp + 100))
        @@ (type :> character[type] + 1)

\* logWorkout(type) up to the await of the update.
logWorkoutLegacy(type) ==
    /\ lcPc = "ready"
    /\ ~lcLoading
    /\ calls < MaxCalls
    /\ IF lcCharacter = << >>
       THEN UNCHANGED << lcLoading, lcInFlight, calls >>
       ELSE /\ calls' = calls + 1
            /\ lcLoading' = TRUE
            /\ lcInFlight' =
                  << [type    |-> type,
                      base    |-> lcCharacter[1],
                      updates |-> LegacyWorkoutUpdates(lcCharacter[1], type)] >>
    /\ UNCHANGED << lcPc, lcCharacter >>
    /\ UNCHANGED << lqPc, lqCharacter, lqQuests, rewards >>
    /\ UNCHANGED << dbVars, csVars, qsVars, guildVars, rewardVars, genVars, createVars, statVars, memberVars, chatVars >>

\* The update of logWorkout and what follows it.
logWorkoutLegacyUpdate(ok) ==
    /\ lcInFlight # << >>
    /\ LET op == lcInFlight[1]
       IN  IF ok
           THEN /\ characters' = UpdatedCharacters(op.updates)
                /\ lcCharacter' = << ApplyUpdates(op.base, op.updates) >>
           ELSE UNCHANGED << characters, lcCharacter >>
    /\ lcLoading' = FALSE
    /\ lcInFlight' = << >>
    /\ UNCHANGED lcPc
    /\ UNCHANGED << lqPc, lqCharacter, lqQuests, rewards >>
    /\ UNCHANGED << questsTable, granted, csVars, qsVars, guildVars, rewardVars, genVars, createVars, statVars, memberVars, chatVars, calls >>

\* The mount effect of the earlier QuestScreen.  The character is selected
\* by .eq('id', user.id): found tells whether the row's id is the user's id.
fetchUserAndQuests(found) ==
    /\ lqPc = "unmounted"
    /\ lqCharacter' = IF found THEN Single(characters) ELSE << >>
    /\ lqQuests' = MOCK_QUESTS
    /\ lqPc' = "ready"
    /\ UNCHANGED << lcPc, lcCharacter, lcLoading, lcInFlight, rewards >>
    /\ UNCHANGED << dbVars, csVars, qsVars, guildVars, rewardVars, genVars, createVars, statVars, memberVars, chatVars, calls >>

\* acceptQuest(questId) of the earlier screen: local state only.
acceptQuestLegacy(questId) ==
    /\ lqPc = "ready"
    /\ calls < MaxCalls
    /\ calls' = calls + 1
    /\ LET updatedQuests == AcceptedQuests(lqQuests, questId)
       IN  /\ lqQuests' = updatedQuests
           /\ rewards' = rewards \cup EarnedRewards(updatedQuests, rewards)
    /\ UNCHANGED << lqPc, lqCharacter >>
    /\ UNCHANGED << lcPc, lcCharacter, lcLoading, lcInFlight >>
    /\ UNCHANGED << dbVars, csVars, qsVars, guildVars, rewardVars, genVars, createVars, statVars, memberVars, chatVars >>

\* quests.map(q => q.id === questId ? { ...q, completed: true } : q)
CompletedQuests(quests, questId) ==
    [i \in DOMAIN quests |->
        IF quests[i].id = questId
        THEN [quests[i] EXCEPT !.completed = TRUE]
        ELSE quests[i]]

\* completeQuest(questId) of the earlier screen: local state only.
completeQuestLegacy(questId) ==
    /\ lqPc = "ready"
    /\ calls < MaxCalls
    /\ IF lqCharacter = << >>
       THEN UNCHANGED << lqQuests, lqCharacter, rewards, calls >>
       ELSE LET updatedQuests == CompletedQuests(lqQuests, questId)
            IN  /\ calls' = calls + 1
                /\ lqQuests' = updatedQuests
                /\ IF ~HasQuest(updatedQuests, questId)
                   THEN UNCHANGED << lqCharacter, rewards >>
                   ELSE LET completedQuest == FindQuest(updatedQuests, questId)
                            updatedCharacter ==
                                [lqCharacter[1] EXCEPT
                                    !.xp = @ + completedQuest.xpReward,
                                    ![completedQuest.type] = @ + 1]
                        IN  /\ lqCharacter' = << updatedCharacter >>
                            /\ rewards' = rewards
                                  \cup EarnedRewards(updatedQuests, rewards)
    /\ UNCHANGED lqPc
    /\ UNCHANGED << lcPc, lcCharacter, lcLoading, lcInFlight >>
    /\ UNCHANGED << dbVars, csVars, qsVars, guildVars, rewardVars, genVars, createVars, statVars, memberVars, chatVars >>

NextLegacy ==
    \/ fetchCharacterLegacy
    \/ \E name \in {"", "Hero"}, ok \in BOOLEAN : createCharacterLegacy(name, ok)
    \/ \E type \in QuestTypes : logWorkoutLegacy(type)
    \/ \E ok \in BOOLEAN : logWorkoutLegacyUpdate(ok)
    \/ \E found \in BOOLEAN : fetchUserAndQuests(found)
    \/ \E questId \in QuestIds : acceptQuestLegacy(questId)
    \/ \E questId \in QuestIds : completeQuestLegacy(questId)

SpecLegacy == Init /\ [][NextLegacy]_vars

----------------------------------------------------------------------------
(* GuildEventsScreen (part_002), opened by several members of one guild    *)

\* events.find(e => e.id === eventId)
FindEvent(list, eventId) ==
    list[CHOOSE i \in DOMAIN list : list[i].id = eventId]

HasEvent(list, eventId) == \E i \in DOMAIN list : list[i].id = eventId

\* guild_events.update(updateData).eq('id', eventId) and the events.map of
\* the handlers: the event with that id takes the updates.
UpdatedEvents(list, eventId, updates) ==
    [i \in DOMAIN list |->
        IF list[i].id = eventId THEN ApplyUpdates(list[i], updates) ELSE list[i]]

\* fetchGuildData: the select of the guild.
fetchGuildDataGuild(c, ok) ==
    /\ gePc[c] = "unmounted"
    /\ IF ok
       THEN /\ guildData' = [guildData EXCEPT ![c] = << guilds >>]
            /\ gePc' = [gePc EXCEPT ![c] = "fetchEvents"]
       ELSE /\ gePc' = [gePc EXCEPT ![c] = "ready"]
            /\ UNCHANGED guildData
    /\ UNCHANGED << guilds, guild_events, events, joining, completingEvent,
                    joinOp, completeOp >>
    /\ UNCHANGED << dbVars, csVars, qsVars, legacyVars, rewardVars, genVars, createVars, statVars, memberVars, chatVars, calls >>

\* fetchGuildData: the select of the guild's events.
fetchGuildDataEvents(c, ok) ==
    /\ gePc[c] = "fetchEvents"
    /\ events' = IF ok THEN [events EXCEPT ![c] = guild_events] ELSE events
    /\ gePc' = [gePc EXCEPT ![c] = "ready"]
    /\ UNCHANGED << guilds, guild_events, guildData, joining, completingEvent,
                    joinOp, completeOp >>
    /\ UNCHANGED << dbVars, csVars, qsVars, legacyVars, rewardVars, genVars, createVars, statVars, memberVars, chatVars, calls >>

\* The button of renderEventItem that calls joinEvent(item.id) is enabled.
JoinEnabled(c, eventId) ==
    /\ HasEvent(events[c], eventId)
    /\ FindEvent(events[c], eventId).status # "completed"
    /\ joining[c] = 0
    /\ FindEvent(events[c], eventId).status = "active" => completingEvent[c] = 0

\* The button that calls completeEvent(item.id) is enabled.
CompleteEnabled(c, eventId) ==
    /\ HasEvent(events[c], eventId)
    /\ FindEvent(events[c], eventId).status = "active"
    /\ joining[c] = 0
    /\ completingEvent[c] = 0

\* joinEvent(eventId) up to the await of the select of the event.
joinEvent(c, eventId) ==
    /\ gePc[c] = "ready"
    /\ JoinEnabled(c, eventId)
    /\ calls < MaxGuildCalls
    /\ calls' = calls + 1
    /\ joining' = [joining EXCEPT ![c] = eventId]
    /\ joinOp' = [joinOp EXCEPT ![c] =
                     << [eventId |-> eventId, events |-> events[c],
                         pc |-> "fetch",
                         currentCount |-> 0, currentStatus |-> ""] >>]
    /\ UNCHANGED << guilds, guild_events, gePc, guildData, events,
                    completingEvent, completeOp >>
    /\ UNCHANGED << dbVars, csVars, qsVars, legacyVars, rewardVars, genVars, createVars, statVars, memberVars, chatVars >>

\* joinEvent: the select of participants_count and status.
joinEventFetch(c, ok) ==
    /\ joinOp[c] # << >>
    /\ joinOp[c][1].pc = "fetch"
    /\ IF ok
       THEN LET eventData == FindEvent(guild_events, joinOp[c][1].eventId)
            IN  /\ joinOp' = [joinOp EXCEPT ![c] =
                      << [joinOp[c][1] EXCEPT
                            !.pc = "update",
                            !.currentCount = eventData.participants_count,
                            !.currentStatus = eventData.status] >>]
                /\ UNCHANGED joining
       ELSE /\ joinOp' = [joinOp EXCEPT ![c] = << >>]
            /\ joining' = [joining EXCEPT ![c] = 0]
    /\ UNCHANGED << guilds, guild_events, gePc, guildData, events,
                    completingEvent, completeOp >>
    /\ UNCHANGED << dbVars, csVars, qsVars, legacyVars, rewardVars, genVars, createVars, statVars, memberVars, chatVars, calls >>

\* updateData of joinEvent.
JoinUpdateData(currentCount, currentStatus) ==
    IF currentStatus = "upcoming"
    THEN ("participants_count" :> currentCount + 1) @@ ("status" :> "active")
    ELSE ("participants_count" :> currentCount + 1)

\* joinEvent: the update of the event and the local update after it.
joinEventUpdate(c, ok) ==
    /\ joinOp[c] # << >>
    /\ joinOp[c][1].pc = "update"
    /\ LET op == joinOp[c][1]
           updateData == JoinUpdateData(op.currentCount, op.currentStatus)
       IN  IF ok
           THEN /\ guild_events' =
                      UpdatedEvents(guild_events, op.eventId, updateData)
                /\ events' = [events EXCEPT ![c] =
                      UpdatedEvents(op.events, op.eventId, updateData)]
           ELSE UNCHANGED << guild_events, events >>
    /\ joinOp' = [joinOp EXCEPT ![c] = << >>]
    /\ joining' = [joining EXCEPT ![c] = 0]
    /\ UNCHANGED << guilds, gePc, guildData, completingEvent, completeOp >>
    /\ UNCHANGED << dbVars, csVars, qsVars, legacyVars, rewardVars, genVars, createVars, statVars, memberVars, chatVars, calls >>

\* completeEvent(eventId) up to the await of the update of the event.
completeEvent(c, eventId) ==
    /\ gePc[c] = "ready"
    /\ CompleteEnabled(c, eventId)
    /\ calls < MaxGuildCalls
    /\ IF guildData[c] = << >>
       THEN UNCHANGED << completingEvent, completeOp, calls >>
       ELSE /\ calls' = calls + 1
            /\ completingEvent' = [completingEvent EXCEPT ![c] = eventId]
            /\ completeOp' = [completeOp EXCEPT ![c] =
                  << [eventId   |-> eventId,
                      events    |-> events[c],
                      guildData |-> guildData[c][1],
                      pc        |-> "eventUpdate"] >>]
    /\ UNCHANGED << guilds, guild_events, gePc, guildData, events,
                    joining, joinOp >>
    /\ UNCHANGED << dbVars, csVars, qsVars, legacyVars, rewardVars, genVars, createVars, statVars, memberVars, chatVars >>

\* completeEvent: the update of the event's status.
completeEventUpdate(c, ok) ==
    /\ completeOp[c] # << >>
    /\ completeOp[c][1].pc = "eventUpdate"
    /\ IF ok
       THEN /\ guild_events' = UpdatedEvents(guild_events, completeOp[c][1].eventId,
                                             "status" :> "completed")
            /\ completeOp' = [completeOp EXCEPT ![c] =
                  << [completeOp[c][1] EXCEPT !.pc = "guildUpdate"] >>]
            /\ UNCHANGED completingEvent
       ELSE /\ completeOp' = [completeOp EXCEPT ![c] = << >>]
            /\ completingEvent' = [completingEvent EXCEPT ![c] = 0]
            /\ UNCHANGED guild_events
    /\ UNCHANGED << guilds, gePc, guildData, events, joining, joinOp >>
    /\ UNCHANGED << dbVars, csVars, qsVars, legacyVars, rewardVars, genVars, createVars, statVars, memberVars, chatVars, calls >>

\* eventToComplete.xp_reward || 100
EventXpGain(eventToComplete) ==
    IF eventToComplete.xp_reward = 0 THEN 100 ELSE eventToComplete.xp_reward

\* completeEvent: the update of the guild's xp and the local updates after it.
completeEventGuildUpdate(c, ok) ==
    /\ completeOp[c] # << >>
    /\ completeOp[c][1].pc = "guildUpdate"
    /\ LET op == completeOp[c][1]
           xpGain == EventXpGain(FindEvent(op.events, op.eventId))
           newXp == op.guildData.xp + xpGain
       IN  IF ok
           THEN /\ guilds' = [guilds EXCEPT !.xp = newXp]
                /\ guildData' = [guildData EXCEPT ![c] =
                                    << [op.guildData EXCEPT !.xp = newXp] >>]
                /\ events' = [events EXCEPT ![c] =
                      UpdatedEvents(op.events, op.eventId, "status" :> "completed")]
           ELSE UNCHANGED << guilds, guildData, events >>
    /\ completeOp' = [completeOp EXCEPT ![c] = << >>]
    /\ completingEvent' = [completingEvent EXCEPT ![c] = 0]
    /\ UNCHANGED << guild_events, gePc, joining, joinOp >>
    /\ UNCHANGED << dbVars, csVars, qsVars, legacyVars, rewardVars, genVars, createVars, statVars, memberVars, chatVars, calls >>

NextGuild ==
    \/ \E c \in Clients, ok \in BOOLEAN : fetchGuildDataGuild(c, ok)
    \/ \E c \in Clients, ok \in BOOLEAN : fetchGuildDataEvents(c, ok)
    \/ \E c \in Clients, eventId \in EventIds : joinEvent(c, eventId)
    \/ \E c \in Clients, ok \in BOOLEAN : joinEventFetch(c, ok)
    \/ \E c \in Clients, ok \in BOOLEAN : joinEventUpdate(c, ok)
    \/ \E c \in Clients, eventId \in EventIds : completeEvent(c, eventId)
    \/ \E c \in Clients, ok \in BOOLEAN : completeEventUpdate(c, ok)
    \/ \E c \in Clients, ok \in BOOLEAN : completeEventGuildUpdate(c, ok)

SpecGuild == Init /\ [][NextGuild]_vars

----------------------------------------------------------------------------
(* GuildScreen (part_007) and GuildDetailsScreen: membership               *)

\* The user's rows in guild_members of the guild.
RowsOf(user) == { m \in guild_members : m.user_id = user }

\* formattedMembers.find(m => m.user_id === user.id) on rows ordered by role
\* ascending: the role of the user's first row, "" when there is none.
CurrentMemberRole(user) ==
    IF RowsOf(user) = {} THEN ""
    ELSE IF \E m \in RowsOf(user) : m.role = "leader" THEN "leader"
    ELSE IF \E m \in RowsOf(user) : m.role = "member" THEN "member"
    ELSE "officer"

\* joinGuild(guildId) up to the await of the insert; the button is disabled
\* while a join is in flight.
joinGuild(c) ==
    /\ jgPc[c] = "idle"
    /\ gdPc[c] = "unmounted"
    /\ calls < MaxGuildCalls
    /\ calls' = calls + 1
    /\ jgPc' = [jgPc EXCEPT ![c] = "insert"]
    /\ UNCHANGED << guild_members, member_count, gdPc, gdGuild, gdUserRole >>
    /\ UNCHANGED << dbVars, csVars, qsVars, legacyVars, guildVars, rewardVars,
                    genVars, createVars, statVars, chatVars >>

\* joinGuild: the insert of the member row.  A second row for a user who has
\* one is taken to be refused by the table.
joinGuildInsert(c, ok) ==
    /\ jgPc[c] = "insert"
    /\ guild_members' =
          IF ok /\ RowsOf(c) = {}
          THEN guild_members \cup { [user_id |-> c, role |-> "member"] }
          ELSE guild_members
    /\ jgPc' = [jgPc EXCEPT ![c] = "idle"]
    /\ UNCHANGED << member_count, gdPc, gdGuild, gdUserRole >>
    /\ UNCHANGED << dbVars, csVars, qsVars, legacyVars, guildVars, rewardVars,
                    genVars, createVars, statVars, chatVars, calls >>

\* fetchGuildDetails, first read: the guild.
fetchGuildDetailsGuild(c, ok) ==
    /\ gdPc[c] = "unmounted"
    /\ jgPc[c] = "idle"
    /\ gdPc' = [gdPc EXCEPT ![c] = "fetchMembers"]
    /\ gdGuild' = [gdGuild EXCEPT ![c] =
                      IF ok THEN << [member_count |-> member_count] >> ELSE << >>]
    /\ UNCHANGED << guild_members, member_count, jgPc, gdUserRole >>
    /\ UNCHANGED << dbVars, csVars, qsVars, legacyVars, guildVars, rewardVars,
                    genVars, createVars, statVars, chatVars, calls >>

\* fetchGuildDetails, second read: the members, and the user's role.
fetchGuildDetailsMembers(c, ok) ==
    /\ gdPc[c] = "fetchMembers"
    /\ gdPc' = [gdPc EXCEPT ![c] = "ready"]
    /\ gdUserRole' = [gdUserRole EXCEPT ![c] =
                         IF ok /\ CurrentMemberRole(c) # ""
                         THEN CurrentMemberRole(c) ELSE gdUserRole[c]]
    /\ UNCHANGED << guild_members, member_count, jgPc, gdGuild >>
    /\ UNCHANGED << dbVars, csVars, qsVars, legacyVars, guildVars, rewardVars,
                    genVars, createVars, statVars, chatVars, calls >>

\* A guard leaveGuild does not have: nobody is taken for the leader.
IsLeader_Never(userRole) == FALSE

\* userRole === 'leader'
IsLeader(userRole) == userRole = "leader"

\* leaveGuild() up to its confirmation alert; its button is rendered for a
\* loaded guild and a userRole that is not null.
leaveGuild(c) ==
    /\ gdPc[c] = "ready"
    /\ gdGuild[c] # << >>
    /\ gdUserRole[c] # ""
    /\ calls < MaxGuildCalls
    /\ IF IsLeader(gdUserRole[c])
       THEN UNCHANGED << gdPc, calls >>
       ELSE /\ gdPc' = [gdPc EXCEPT ![c] = "confirm"]
            /\ calls' = calls + 1
    /\ UNCHANGED << guild_members, member_count, jgPc, gdGuild, gdUserRole >>
    /\ UNCHANGED << dbVars, csVars, qsVars, legacyVars, guildVars, rewardVars,
                    genVars, createVars, statVars, chatVars >>

\* The alert's buttons: "Leave" or "Cancel".
leaveGuildConfirm(c, leave) ==
    /\ gdPc[c] = "confirm"
    /\ gdPc' = [gdPc EXCEPT ![c] = IF leave THEN "delete" ELSE "ready"]
    /\ UNCHANGED << guild_members, member_count, jgPc, gdGuild, gdUserRole >>
    /\ UNCHANGED << dbVars, csVars, qsVars, legacyVars, guildVars, rewardVars,
                    genVars, createVars, statVars, chatVars, calls >>

\* leaveGuild: the delete of the user's rows in the guild.
leaveGuildDelete(c, ok) ==
    /\ gdPc[c] = "delete"
    /\ IF ok
       THEN /\ guild_members' = guild_members \ RowsOf(c)
            /\ gdPc' = [gdPc EXCEPT ![c] = "count"]
       ELSE /\ gdPc' = [gdPc EXCEPT ![c] = "ready"]
            /\ UNCHANGED guild_members
    /\ UNCHANGED << member_count, jgPc, gdGuild, gdUserRole >>
    /\ UNCHANGED << dbVars, csVars, qsVars, legacyVars, guildVars, rewardVars,
                    genVars, createVars, statVars, chatVars, calls >>

\* leaveGuild: the update of member_count, then the navigation to the Guild
\* tab, which unmounts the screen.
leaveGuildCount(c, ok) ==
    /\ gdPc[c] = "count"
    /\ member_count' =
          IF ok
          THEN IF gdGuild[c][1].member_count # 0
               THEN gdGuild[c][1].member_count - 1 ELSE 0
          ELSE member_count
    /\ gdPc' = [gdPc EXCEPT ![c] = "unmounted"]
    /\ gdGuild' = [gdGuild EXCEPT ![c] = << >>]
    /\ gdUserRole' = [gdUserRole EXCEPT ![c] = ""]
    /\ UNCHANGED << guild_members, jgPc >>
    /\ UNCHANGED << dbVars, csVars, qsVars, legacyVars, guildVars, rewardVars,
                    genVars, createVars, statVars, chatVars, calls >>

NextMembers ==
    \/ \E c \in Clients : joinGuild(c)
    \/ \E c \in Clients, ok \in BOOLEAN : joinGuildInsert(c, ok)
    \/ \E c \in Clients, ok \in BOOLEAN : fetchGuildDetailsGuild(c, ok)
    \/ \E c \in Clients, ok \in BOOLEAN : fetchGuildDetailsMembers(c, ok)
    \/ \E c \in Clients : leaveGuild(c)
    \/ \E c \in Clients, leave \in BOOLEAN : leaveGuildConfirm(c, leave)
    \/ \E c \in Clients, ok \in BOOLEAN : leaveGuildDelete(c, ok)
    \/ \E c \in Clients, ok \in BOOLEAN : leaveGuildCount(c, ok)

SpecMembers == Init /\ [][NextMembers]_vars

----------------------------------------------------------------------------
(* GuildChatScreen                                                         *)

\* The effect on [guildId] at mount: fetchMessages sends its select and the
\* channel is asked to subscribe.
fetchMessages ==
    /\ chPc = "unmounted"
    /\ chPc' = "select"
    /\ UNCHANGED << guild_messages, chSubscribed, chData, chPayloads, chMessages >>
    /\ UNCHANGED << dbVars, csVars, qsVars, legacyVars, guildVars, rewardVars,
                    genVars, createVars, statVars, memberVars, calls >>

\* .subscribe(): the channel has joined; inserts from now on are announced.
subscribe ==
    /\ chPc # "unmounted"
    /\ ~chSubscribed
    /\ chSubscribed' = TRUE
    /\ UNCHANGED << guild_messages, chPc, chData, chPayloads, chMessages >>
    /\ UNCHANGED << dbVars, csVars, qsVars, legacyVars, guildVars, rewardVars,
                    genVars, createVars, statVars, memberVars, calls >>

\* fetchMessages: the store evaluates the select (<<>> is an error).
fetchMessagesSelect(ok) ==
    /\ chPc = "select"
    /\ chPc' = "result"
    /\ chData' = IF ok THEN << guild_messages >> ELSE << >>
    /\ UNCHANGED << guild_messages, chSubscribed, chPayloads, chMessages >>
    /\ UNCHANGED << dbVars, csVars, qsVars, legacyVars, guildVars, rewardVars,
                    genVars, createVars, statVars, memberVars, calls >>

\* fetchMessages from the answer of the select on.
fetchMessagesResult ==
    /\ chPc = "result"
    /\ chPc' = "ready"
    /\ chMessages' = IF chData # << >> THEN chData[1] ELSE chMessages
    /\ chData' = << >>
    /\ UNCHANGED << guild_messages, chSubscribed, chPayloads >>
    /\ UNCHANGED << dbVars, csVars, qsVars, legacyVars, guildVars, rewardVars,
                    genVars, createVars, statVars, memberVars, calls >>

\* sendMessage of any member of the guild while the chat is open: the insert.
sendMessageInsert(ok) ==
    /\ chPc # "unmounted"
    /\ Len(guild_messages) < MaxMessages
    /\ IF ok
       THEN LET id == Len(guild_messages) + 1
            IN  /\ guild_messages' = Append(guild_messages, id)
                /\ chPayloads' = IF chSubscribed
                                 THEN Append(chPayloads, id) ELSE chPayloads
       ELSE UNCHANGED << guild_messages, chPayloads >>
    /\ UNCHANGED << chPc, chSubscribed, chData, chMessages >>
    /\ UNCHANGED << dbVars, csVars, qsVars, legacyVars, guildVars, rewardVars,
                    genVars, createVars, statVars, memberVars, calls >>

\* The callback of the channel for an INSERT.
onInsert ==
    /\ chPayloads # << >>
    /\ chMessages' = Append(chMessages, Head(chPayloads))
    /\ chPayloads' = Tail(chPayloads)
    /\ UNCHANGED << guild_messages, chPc, chSubscribed, chData >>
    /\ UNCHANGED << dbVars, csVars, qsVars, legacyVars, guildVars, rewardVars,
                    genVars, createVars, statVars, memberVars, calls >>

NextChat ==
    \/ fetchMessages
    \/ subscribe
    \/ \E ok \in BOOLEAN : fetchMessagesSelect(ok)
    \/ fetchMessagesResult
    \/ \E ok \in BOOLEAN : sendMessageInsert(ok)
    \/ onInsert

SpecChat == Init /\ [][NextChat]_vars

----------------------------------------------------------------------------
(* QuestScreen: the refill of the quest list                               *)

\* The draws of one generateQuest call: the type, the tier, the reward at
\* either end of what Math.random() can give, and the content reply.
AllQuestDraws ==
    [typeIdx : 0 .. 3, diffIdx : 0 .. 2, pct : {0, 99}, api : QuestReplies]

\* uuidv4(): an id no quest has yet.
FreshQuestId ==
    LET used == { q.id : q \in questsTable }
                  \cup { qsQuests[i].id : i \in DOMAIN qsQuests }
                  \cup { newQuests[i].id : i \in DOMAIN newQuests }
    IN  (CHOOSE m \in used \cup {0} : \A o \in used : o <= m) + 1

\* The account on a later visit of the Quests tab: one quest is open.
InitGenerate ==
    /\ characters = << ClasslessRow >>
    /\ questsTable = { generateQuest(1, 0, 2, 99, "json") }
    /\ rewardsTable = << >>
    /\ ceSession = SignedIn
    /\ ScreensInit

\* A guard generateNewQuests does not have: no call is turned away.
AlreadyGenerating_Never(seen) == FALSE

\* `if (generatingQuest) return;` as decided by a call from a render in
\* which generatingQuest was `seen`.
AlreadyGenerating(seen) == seen

\* generateNewQuests(count) up to its first await.
generateNewQuests(count, seen) ==
    IF AlreadyGenerating(seen)
    THEN UNCHANGED genVars
    ELSE /\ generatingQuest' = TRUE
         /\ newQuests' = << >>
         /\ genCount' = count
         /\ genPc' = "getUser"
         /\ genInFlight' = genInFlight + 1

\* The effect on [quests, loading], run after a render with these values.
QuestsEffect(loading, quests, seen) ==
    IF ~loading /\ Len(quests) < 3
    THEN generateNewQuests(3 - Len(quests), seen)
    ELSE UNCHANGED genVars

\* fetchInitialData's last render, which takes loading to false.
fetchInitialDataRender ==
    QuestsEffect(FALSE, qsQuests', generatingQuest)

\* The render after completeQuest has set the lists, if it has.
completeQuestRender ==
    IF qsQuests' # qsQuests
    THEN QuestsEffect(FALSE, qsQuests', generatingQuest)
    ELSE UNCHANGED genVars

\* The "Generate New Quest" button, disabled while generatingQuest.
generateButton ==
    /\ qsPc = "ready"
    /\ ~generatingQuest
    /\ calls < MaxCalls
    /\ calls' = calls + 1
    /\ generateNewQuests(1, generatingQuest)
    /\ UNCHANGED << dbVars, csVars, qsVars, legacyVars, guildVars, rewardVars, createVars, statVars, memberVars, chatVars >>

\* What `finally` leaves of an activation that starts no other.
generateNewQuestsFinally ==
    /\ generatingQuest' = FALSE
    /\ genPc' = "idle"
    /\ genInFlight' = genInFlight - 1
    /\ UNCHANGED << newQuests, genCount >>

UserOutcomes == { "user", "nouser", "throw" }
InsertOutcomes == { "ok", "error", "throw" }

\* generateNewQuests: the answer of auth.getUser().
generateNewQuestsUser(outcome) ==
    /\ genPc = "getUser"
    /\ IF outcome = "user"
       THEN genPc' = "loop" /\ UNCHANGED << generatingQuest, newQuests, genCount, genInFlight >>
       ELSE generateNewQuestsFinally
    /\ UNCHANGED << dbVars, csVars, qsVars, legacyVars, guildVars, rewardVars, createVars, statVars, memberVars, chatVars, calls >>

\* generateNewQuests: one turn of its loop.
generateNewQuestsGenerate(d) ==
    /\ genPc = "loop"
    /\ genCount > 0
    /\ newQuests' = Append(newQuests, Generated(FreshQuestId, d))
    /\ genCount' = genCount - 1
    /\ UNCHANGED << generatingQuest, genPc, genInFlight >>
    /\ UNCHANGED << dbVars, csVars, qsVars, legacyVars, guildVars, rewardVars, createVars, statVars, memberVars, chatVars, calls >>

\* generateNewQuests: the insert and what follows it.  setQuests and the
\* setGeneratingQuest(false) of `finally` are called after an await: a root
\* that batches them renders once, with generatingQuest false; a root that
\* does not renders after setQuests, with generatingQuest still true, and the
\* render after setGeneratingQuest(false) changes nothing the effect depends
\* on.
generateNewQuestsInsert(outcome, batched) ==
    /\ genPc = "loop"
    /\ genCount = 0
    /\ LET quests == IF outcome = "ok" THEN qsQuests \o newQuests ELSE qsQuests
           again == /\ outcome = "ok"
                    /\ Len(quests) < 3
                    /\ ~AlreadyGenerating(~batched)
       IN  /\ questsTable' =
                 IF outcome = "ok"
                 THEN questsTable \cup { newQuests[i] : i \in DOMAIN newQuests }
                 ELSE questsTable
           /\ qsQuests' = quests
           /\ IF again
              THEN /\ generatingQuest' = TRUE
                   /\ newQuests' = << >>
                   /\ genCount' = 3 - Len(quests)
                   /\ genPc' = "getUser"
                   /\ UNCHANGED genInFlight
              ELSE generateNewQuestsFinally
    /\ UNCHANGED << characters, granted, qsPc, qsCharacter, qsCompletedQuests,
                    cqInFlight, cqPc >>
    /\ UNCHANGED << csVars, legacyVars, guildVars, rewardVars, createVars, statVars, memberVars, chatVars, calls >>

NextGenerate ==
    \/ fetchInitialDataCharacter
    \/ \E d1, d2, d3 \in QuestDraws, insertOk \in BOOLEAN :
          fetchInitialDataQuests(d1, d2, d3, insertOk) /\ fetchInitialDataRender
    \/ \E outcome \in UserOutcomes : generateNewQuestsUser(outcome)
    \/ \E d \in AllQuestDraws : generateNewQuestsGenerate(d)
    \/ \E outcome \in InsertOutcomes, batched \in BOOLEAN :
          generateNewQuestsInsert(outcome, batched)

SpecGenerate == InitGenerate /\ [][NextGenerate]_vars

\* The Quests tab with three stored quests, completions and the button.
NextRefill ==
    \/ fetchInitialDataCharacter
    \/ \E d1, d2, d3 \in QuestDraws, insertOk \in BOOLEAN :
          fetchInitialDataQuests(d1, d2, d3, insertOk) /\ fetchInitialDataRender
    \/ \E questId \in QuestIds : completeQuest(questId) /\ completeQuestRender
    \/ \E op \in cqInFlight, ok \in BOOLEAN : completeQuestQuestUpdate(op, ok)
    \/ \E op \in cqInFlight, ok \in BOOLEAN : completeQuestCharacterUpdate(op, ok)
    \/ generateButton
    \/ \E outcome \in UserOutcomes : generateNewQuestsUser(outcome)
    \/ \E d \in QuestDraws : generateNewQuestsGenerate(d)
    \/ \E outcome \in InsertOutcomes, batched \in BOOLEAN :
          generateNewQuestsInsert(outcome, batched)

SpecRefill == Init /\ [][NextRefill]_vars

\* The same tab when every request of generateNewQuests succeeds.
fetchInitialDataLoaded ==
    \E d1, d2, d3 \in QuestDraws, insertOk \in BOOLEAN :
        fetchInitialDataQuests(d1, d2, d3, insertOk) /\ fetchInitialDataRender
generateNewQuestsGenerated == \E d \in QuestDraws : generateNewQuestsGenerate(d)
generateNewQuestsInserted == \E batched \in BOOLEAN : generateNewQuestsInsert("ok", batched)

NextRefillOk ==
    \/ fetchInitialDataCharacter
    \/ fetchInitialDataLoaded
    \/ \E questId \in QuestIds : completeQuest(questId) /\ completeQuestRender
    \/ \E op \in cqInFlight, ok \in BOOLEAN : completeQuestQuestUpdate(op, ok)
    \/ \E op \in cqInFlight, ok \in BOOLEAN : completeQuestCharacterUpdate(op, ok)
    \/ generateNewQuestsUser("user")
    \/ generateNewQuestsGenerated
    \/ generateNewQuestsInserted

\* Requests are answered; nothing obliges the user to act.
SpecRefillOk ==
    /\ Init
    /\ [][NextRefillOk]_vars
    /\ WF_vars(fetchInitialDataCharacter)
    /\ WF_vars(fetchInitialDataLoaded)
    /\ WF_vars(generateNewQuestsUser("user"))
    /\ WF_vars(generateNewQuestsGenerated)
    /\ WF_vars(generateNewQuestsInserted)

----------------------------------------------------------------------------
(* CreateEventScreen (part_010)                                            *)

\* Texts are sequences of characters.
Spaces(n) == [i \in 1 .. n |-> " "]
Word(n) == [i \in 1 .. n |-> "a"]

\* !text.trim(): nothing is left of the text without its white space.
Blank(text) == \A i \in DOMAIN text : text[i] = " "

TooShort_Never(text, n) == FALSE

\* text.length < n
TooShort(text, n) == Len(text) < n

\* What the fields of the form are set to in this model.  Numbers are what
\* parseInt gives, with 0 for an xp_reward that is no number and << >>
\* (undefined) for a goal that is no number; dates are hours on the clock.
FieldValues ==
    [title |-> { Spaces(3), Word(2), Word(3) },
     description |-> { Word(9), Word(10) },
     reward_description |-> { Word(1) },
     xp_reward |-> { 0, 50 },
     start_date |-> { 0, 30 },
     end_date |-> { 30 },
     has_goal |-> BOOLEAN,
     goal |-> { << 0 >>, << 5 >> }]

\* The form opened from a guild's events, or without a guild in its route.
InitCreateEvent ==
    /\ characters = << >>
    /\ questsTable = {}
    /\ rewardsTable = << >>
    /\ ceSession \in { SignedIn, [user |-> TRUE, guildId |-> FALSE] }
    /\ ScreensInit

\* updateField(field, value); the goal input is rendered while has_goal is set.
updateField(field, value) ==
    /\ cePc = "form"
    /\ field = "goal" => ceFormData.has_goal
    /\ ceFormData' = [ceFormData EXCEPT ![field] = value]
    /\ ceErrors' = IF field \in ErrorFields /\ ceErrors[field] # ""
                   THEN [ceErrors EXCEPT ![field] = ""]
                   ELSE ceErrors
    /\ UNCHANGED << cePc, ceSession, ceNewEvent >>
    /\ UNCHANGED << dbVars, csVars, qsVars, legacyVars, guildVars, rewardVars,
                    genVars, statVars, memberVars, chatVars, calls >>

\* newErrors of validateForm, with the clock at t.
validateForm(formData, t) ==
    [f \in ErrorFields |->
       CASE f = "title" ->
              IF Blank(formData.title) THEN "Title is required"
              ELSE IF TooShort(formData.title, 3)
                   THEN "Title must be at least 3 characters" ELSE ""
         [] f = "description" ->
              IF Blank(formData.description) THEN "Description is required"
              ELSE IF TooShort(formData.description, 10)
                   THEN "Description must be at least 10 characters" ELSE ""
         [] f = "reward_description" ->
              IF Blank(formData.reward_description)
              THEN "Reward description is required" ELSE ""
         [] f = "xp_reward" ->
              IF formData.xp_reward <= 0
              THEN "XP reward must be greater than 0" ELSE ""
         [] f = "start_date" ->
              IF formData.start_date <= t
              THEN "Start date must be in the future" ELSE ""
         [] f = "end_date" ->
              IF formData.end_date <= formData.start_date
              THEN "End date must be after start date" ELSE ""
         [] f = "goal" ->
              IF formData.has_goal
                   /\ (formData.goal = << >> \/ formData.goal[1] <= 0)
              THEN "Goal must be a positive number" ELSE ""]

\* handleSubmit up to its await, pressed with the clock at t: the button is
\* disabled while isSubmitting is set.
handleSubmit(t) ==
    /\ cePc = "form"
    /\ t >= now /\ t <= MaxClock
    /\ now' = t
    /\ LET newErrors == validateForm(ceFormData, t)
       IN  /\ ceErrors' = newErrors
           /\ IF (\A f \in ErrorFields : newErrors[f] = "")
                   /\ ceSession.user /\ ceSession.guildId
              THEN /\ cePc' = "submitting"
                   /\ ceNewEvent' =
                        << [title |-> ceFormData.title,
                            description |-> ceFormData.description,
                            start_date |-> ceFormData.start_date,
                            end_date |-> ceFormData.end_date,
                            reward_description |-> ceFormData.reward_description,
                            xp_reward |-> ceFormData.xp_reward,
                            status |-> "upcoming",
                            goal |-> IF ceFormData.has_goal
                                     THEN ceFormData.goal ELSE << >>] >>
              ELSE UNCHANGED << cePc, ceNewEvent >>
    /\ UNCHANGED << ceSession, ceFormData >>
    /\ UNCHANGED << rewardsTable, rsPc, rsCompletedQuests, questCounts,
                    availableRewards, rsRewards, checkRuns, gnrPc, gnrNewRewards >>
    /\ UNCHANGED << dbVars, csVars, qsVars, legacyVars, guildVars, genVars, statVars, memberVars, chatVars, calls >>

\* handleSubmit after its await: the alert, and isSubmitting reset.
handleSubmitDone ==
    /\ cePc = "submitting"
    /\ cePc' = "alert"
    /\ UNCHANGED << ceSession, ceFormData, ceErrors, ceNewEvent >>
    /\ UNCHANGED << dbVars, csVars, qsVars, legacyVars, guildVars, rewardVars,
                    genVars, statVars, memberVars, chatVars, calls >>

NextCreateEvent ==
    \/ \E field \in DOMAIN FieldValues :
          \E value \in FieldValues[field] : updateField(field, value)
    \/ \E t \in 0 .. MaxClock : handleSubmit(t)
    \/ handleSubmitDone
    \/ \E ok \in BOOLEAN : FetchCharacter(ok)
    \/ \E name \in {"", "Hero"}, ok \in BOOLEAN : createCharacter(name, ok)

SpecCreateEvent == InitCreateEvent /\ [][NextCreateEvent]_vars

----------------------------------------------------------------------------
(* RewardsScreen (part_005) over the `quests` and `rewards` tables         *)

\* A reward record as the screen builds it before the table gives it an id.
NewReward(title, type, requirement, difficulty) ==
    [id |-> 0, title |-> title, type |-> type, requirement |-> requirement,
     difficulty |-> difficulty, earned |-> FALSE, date_earned |-> 0]

\* generateInitialRewards(userId)
generateInitialRewards ==
    << NewReward("Strength Novice", "strength", 3, "bronze"),
       NewReward("Speed Seeker", "speed", 3, "bronze"),
       NewReward("Magic Apprentice", "magic", 3, "bronze"),
       NewReward("Willpower Initiate", "willpower", 3, "bronze") >>

\* The rows rewards.insert(reward).select() returns for the records of the
\* list, inserted in turn into a table of `stored` rows: the table gives
\* each row its id.
InsertedRewards(list, stored) ==
    [i \in DOMAIN list |-> [list[i] EXCEPT !.id = stored + i]]

\* The quests a returning user has completed: three strength, one speed.
CompletedStoredQuests ==
    { [generateQuest(1, 0, 0, 50, "json") EXCEPT !.accepted = TRUE, !.completed = TRUE],
      [generateQuest(2, 0, 1, 50, "json") EXCEPT !.accepted = TRUE, !.completed = TRUE],
      [generateQuest(3, 0, 2, 50, "json") EXCEPT !.accepted = TRUE, !.completed = TRUE],
      [generateQuest(4, 1, 0, 50, "json") EXCEPT !.accepted = TRUE, !.completed = TRUE],
      generateQuest(5, 2, 0, 50, "json") }

\* The rewards a previous visit of the Rewards tab stored.
StoredRewards == InsertedRewards(generateInitialRewards, 0)

InitRewards ==
    /\ characters = << ClasslessRow >>
    /\ questsTable = CompletedStoredQuests
    /\ rewardsTable \in { << >>, StoredRewards }
    /\ ceSession = SignedIn
    /\ ScreensInit

CountByType_AnyType(questsData) ==
    [t \in QuestTypes |-> Cardinality(questsData)]

\* questsData.reduce(...): completed quests counted by type.
CountByType(questsData) ==
    [t \in QuestTypes |-> Cardinality({ q \in questsData : q.type = t })]

\* A set of quest rows as the list the select returns, ordered by id.
RECURSIVE RowsById(_)
RowsById(rows) ==
    IF rows = {} THEN << >>
    ELSE LET first == CHOOSE r \in rows : \A o \in rows : r.id <= o.id
         IN  << first >> \o RowsById(rows \ {first})

\* rewardsData.filter(r => r.earned || r.date_earned)
EarnedOf(list) == SelectSeq(list, LAMBDA r : r.earned \/ r.date_earned # 0)

\* A checkForNewRewards activation: its copy of availableRewards, the index
\* its loop has reached, and newEarned.
NewRun(list) == [updatedRewards |-> list, i |-> 1, newEarned |-> FALSE]

\* The effect on [completedQuests, availableRewards]: when both lists are
\* non-empty after a change, checkForNewRewards starts on the new lists.
RewardsEffect(runs, newCompletedQuests, newAvailableRewards) ==
    IF Len(newCompletedQuests) > 0 /\ Len(newAvailableRewards) > 0
    THEN Append(runs, NewRun(newAvailableRewards))
    ELSE runs

\* fetchData: the select of the completed quests.
fetchDataQuests(ok) ==
    /\ rsPc = "unmounted"
    /\ IF ok
       THEN LET questsData == { q \in questsTable : q.completed }
            IN  /\ rsCompletedQuests' = RowsById(questsData)
                /\ questCounts' = CountByType(questsData)
       ELSE UNCHANGED << rsCompletedQuests, questCounts >>
    /\ rsPc' = "fetchRewards"
    /\ UNCHANGED << rewardsTable, now, availableRewards, rsRewards, checkRuns,
                    gnrPc, gnrNewRewards >>
    /\ UNCHANGED << dbVars, csVars, qsVars, legacyVars, guildVars, genVars, createVars, statVars, memberVars, chatVars, calls >>

\* fetchData: the select of the rewards, the insert of the initial rewards
\* when none came back, and the start of generateNewRewards.
fetchDataRewards(ok, insertOk) ==
    /\ rsPc = "fetchRewards"
    /\ LET rewardsData == IF ok THEN rewardsTable ELSE << >>
           unearnedRewards == SelectSeq(rewardsData, LAMBDA r : r.date_earned = 0)
       IN  /\ IF Len(rewardsData) = 0
              THEN LET initialRewards == generateInitialRewards
                       insertedRewards ==
                           IF insertOk
                           THEN InsertedRewards(initialRewards, Len(rewardsTable))
                           ELSE << >>
                       shown == IF Len(insertedRewards) > 0
                                THEN insertedRewards ELSE initialRewards
                   IN  /\ rewardsTable' = rewardsTable \o insertedRewards
                       /\ availableRewards' = shown
                       /\ checkRuns' = RewardsEffect(checkRuns, rsCompletedQuests, shown)
                       /\ UNCHANGED rsRewards
              ELSE /\ availableRewards' = rewardsData
                   /\ rsRewards' = EarnedOf(rewardsData)
                   /\ checkRuns' = RewardsEffect(checkRuns, rsCompletedQuests, rewardsData)
                   /\ UNCHANGED rewardsTable
           /\ gnrPc' = IF Len(unearnedRewards) < 5 THEN "request" ELSE gnrPc
    /\ rsPc' = "ready"
    /\ UNCHANGED << now, rsCompletedQuests, questCounts, gnrNewRewards >>
    /\ UNCHANGED << dbVars, csVars, qsVars, legacyVars, guildVars, genVars, createVars, statVars, memberVars, chatVars, calls >>

\* The value of a requirement the generator's record does not have.
Missing == 0 - 1

\* questCounts[reward.type] >= reward.requirement; a requirement that is
\* not a number compares false.
RequirementMet(counts, reward) ==
    reward.requirement # Missing /\ counts[reward.type] >= reward.requirement

\* The indices the loop of a run has yet to reach whose reward it will
\* update: no date_earned, requirement met.
DueRewards(run) ==
    { j \in DOMAIN run.updatedRewards :
        /\ j >= run.i
        /\ run.updatedRewards[j].date_earned = 0
        /\ RequirementMet(questCounts, run.updatedRewards[j]) }

\* rewards.update({ earned: true, date_earned: <now> }).eq('id', id)
UpdatedRewardRows(id) ==
    [j \in DOMAIN rewardsTable |->
        IF rewardsTable[j].id = id
        THEN [rewardsTable[j] EXCEPT !.earned = TRUE, !.date_earned = now]
        ELSE rewardsTable[j]]

\* .select() of that update: the rows with the id, after the update.
SelectedRewardRows(id) ==
    SelectSeq(UpdatedRewardRows(id), LAMBDA r : r.id = id)

RemoveAt(seq, k) ==
    [j \in 1 .. (Len(seq) - 1) |-> IF j < k THEN seq[j] ELSE seq[j + 1]]

\* checkForNewRewards: the loop up to and including the next update.
checkForNewRewardsUpdate(k, ok) ==
    /\ k \in DOMAIN checkRuns
    /\ DueRewards(checkRuns[k]) # {}
    /\ LET run == checkRuns[k]
           i == CHOOSE j \in DueRewards(run) : \A o \in DueRewards(run) : j <= o
           reward == run.updatedRewards[i]
           updatedReward == SelectedRewardRows(reward.id)
       IN  IF ok
           THEN /\ rewardsTable' = UpdatedRewardRows(reward.id)
                /\ now' = now + 1
                /\ checkRuns' = [checkRuns EXCEPT ![k] =
                      [run EXCEPT
                         !.updatedRewards[i] =
                             IF Len(updatedReward) > 0
                             THEN updatedReward[1]
                             ELSE [reward EXCEPT !.earned = TRUE,
                                                 !.date_earned = now],
                         !.i = i + 1,
                         !.newEarned = TRUE]]
           ELSE /\ checkRuns' = [checkRuns EXCEPT ![k] = [run EXCEPT !.i = i + 1]]
                /\ UNCHANGED << rewardsTable, now >>
    /\ UNCHANGED << rsPc, rsCompletedQuests, questCounts, availableRewards,
                    rsRewards, gnrPc, gnrNewRewards >>
    /\ UNCHANGED << dbVars, csVars, qsVars, legacyVars, guildVars, genVars, createVars, statVars, memberVars, chatVars, calls >>

\* checkForNewRewards: the end of the loop and what follows it.
checkForNewRewardsFinish(k) ==
    /\ k \in DOMAIN checkRuns
    /\ DueRewards(checkRuns[k]) = {}
    /\ LET run == checkRuns[k]
       IN  IF run.newEarned
           THEN /\ availableRewards' = run.updatedRewards
                /\ rsRewards' = EarnedOf(run.updatedRewards)
                /\ checkRuns' = RewardsEffect(RemoveAt(checkRuns, k),
                                              rsCompletedQuests, run.updatedRewards)
           ELSE /\ checkRuns' = RemoveAt(checkRuns, k)
                /\ UNCHANGED << availableRewards, rsRewards >>
    /\ UNCHANGED << rewardsTable, now, rsPc, rsCompletedQuests, questCounts,
                    gnrPc, gnrNewRewards >>
    /\ UNCHANGED << dbVars, csVars, qsVars, legacyVars, guildVars, genVars, createVars, statVars, memberVars, chatVars, calls >>

\* What the content request of generateNewRewards can come to: the request
\* or response.json() throws, the response has no choices, the text is not
\* JSON or not an array, the text is an array of rewards, the text is an
\* array of records without a requirement.
GeneratorReplies == { "throw", "nochoices", "notjson", "json", "noRequirement" }

\* newRewards after JSON.parse and the map that adds earned, date_earned
\* and user_id.
ParsedRewards(reply) ==
    IF reply = "json"
    THEN << NewReward("Mountain Titan", "strength", 7, "silver") >>
    ELSE << NewReward("Mountain Titan", "strength", Missing, "silver") >>

\* generateNewRewards: the content request and the parse of its reply.
generateNewRewardsResponse(reply) ==
    /\ gnrPc = "request"
    /\ IF reply \in { "json", "noRequirement" }
       THEN /\ gnrNewRewards' = ParsedRewards(reply)
            /\ gnrPc' = "insert"
       ELSE /\ gnrPc' = "failed"
            /\ UNCHANGED gnrNewRewards
    /\ UNCHANGED << rewardsTable, now, rsPc, rsCompletedQuests, questCounts,
                    availableRewards, rsRewards, checkRuns >>
    /\ UNCHANGED << dbVars, csVars, qsVars, legacyVars, guildVars, genVars, createVars, statVars, memberVars, chatVars, calls >>

\* generateNewRewards: the inserts and the update of availableRewards.
generateNewRewardsInsert(ok) ==
    /\ gnrPc = "insert"
    /\ IF ok
       THEN LET insertedRewards == InsertedRewards(gnrNewRewards, Len(rewardsTable))
            IN  /\ rewardsTable' = rewardsTable \o insertedRewards
                /\ availableRewards' = availableRewards \o insertedRewards
                /\ checkRuns' = RewardsEffect(checkRuns, rsCompletedQuests,
                                              availableRewards \o insertedRewards)
                /\ gnrPc' = "done"
       ELSE /\ gnrPc' = "refetch"
            /\ UNCHANGED << rewardsTable, availableRewards, checkRuns >>
    /\ UNCHANGED << now, rsPc, rsCompletedQuests, questCounts, rsRewards,
                    gnrNewRewards >>
    /\ UNCHANGED << dbVars, csVars, qsVars, legacyVars, guildVars, genVars, createVars, statVars, memberVars, chatVars, calls >>

\* generateNewRewards: the select of the rewards when no insert returned a row.
generateNewRewardsRefetch(ok) ==
    /\ gnrPc = "refetch"
    /\ IF ok
       THEN /\ availableRewards' = rewardsTable
            /\ checkRuns' = RewardsEffect(checkRuns, rsCompletedQuests, rewardsTable)
       ELSE UNCHANGED << availableRewards, checkRuns >>
    /\ gnrPc' = "done"
    /\ UNCHANGED << rewardsTable, now, rsPc, rsCompletedQuests, questCounts,
                    rsRewards, gnrNewRewards >>
    /\ UNCHANGED << dbVars, csVars, qsVars, legacyVars, guildVars, genVars, createVars, statVars, memberVars, chatVars, calls >>

NextRewards ==
    \/ \E ok \in BOOLEAN : fetchDataQuests(ok)
    \/ \E ok \in BOOLEAN, insertOk \in BOOLEAN : fetchDataRewards(ok, insertOk)
    \/ \E k \in DOMAIN checkRuns, ok \in BOOLEAN : checkForNewRewardsUpdate(k, ok)
    \/ \E k \in DOMAIN checkRuns : checkForNewRewardsFinish(k)
    \/ \E reply \in GeneratorReplies : generateNewRewardsResponse(reply)
    \/ \E ok \in BOOLEAN : generateNewRewardsInsert(ok)
    \/ \E ok \in BOOLEAN : generateNewRewardsRefetch(ok)

SpecRewards == InitRewards /\ [][NextRewards]_vars

----------------------------------------------------------------------------
(* Claims about the character and quest screens, stated for Spec *)

StoredCharacters == { characters[i] : i \in DOMAIN characters }

HeldCharacters ==
    { csCharacter[i] : i \in DOMAIN csCharacter }
        \cup { qsCharacter[i] : i \in DOMAIN qsCharacter }

StoredCompleted(q) == \E r \in questsTable : r.id = q /\ r.completed

C3_XpNeverDecreases ==
    [][ (characters # << >> /\ characters' # << >>)
            => characters'[1].xp >= characters[1].xp ]_vars

\* C4: updates of the character are serialized: a handler's write of the
\* character is applied only while no other completeQuest or logWorkout is
\* between its read of the character and its own write.
C4_UpdatesSerialized ==
    [][ /\ \A op \in cqInFlight :
              completeQuestCharacterUpdate(op, TRUE)
                  => (cqInFlight = {op} /\ lwInFlight = << >>)
        /\ logWorkoutUpdate(TRUE) => cqInFlight = {} ]_vars

\* C5: when no completeQuest is in flight, a quest is stored as completed
\* exactly when its reward has been added to the stored xp.
C5_AllOrNothing ==
    cqInFlight = {}
        => \A q \in QuestIds : StoredCompleted(q) <=> granted[q] # << >>

\* The specialty the claim gives each class; none for a missing class.
ClaimedSpecialty(class) ==
    CASE class = "Warrior" -> "strength"
      [] class = "Rogue"   -> "speed"
      [] class = "Mage"    -> "magic"
      [] class = "Monk"    -> "willpower"
      [] OTHER             -> "none"

ClaimedGain(class, type, baseReward) ==
    IF type = ClaimedSpecialty(class) THEN (baseReward * 12) \div 10 ELSE baseReward

\* C6: the xp gain of every activation is floor(baseReward * 1.2) when the
\* category is the specialty of the character's class and baseReward
\* otherwise (100 for a workout); no class, no bonus.
C6_ClassBonus ==
    /\ \A op \in cqInFlight :
          op.xpGain = ClaimedGain(op.base.class, op.quest.type, op.quest.xpReward)
    /\ \A i \in DOMAIN lwInFlight :
          lwInFlight[i].xpGain =
              ClaimedGain(lwInFlight[i].base.class, lwInFlight[i].type, 100)

\* What one activation (its category, the character it read, its updates)
\* does to the four attribute counters, as the claim has it.
AttributeOnLevelUpOnly(type, base, updates) ==
    /\ (DOMAIN updates) \cap QuestTypes \subseteq {type}
    /\ type \in DOMAIN updates <=> updates["level"] > base.level
    /\ type \in DOMAIN updates => updates[type] = base[type] + 1

\* C7: an activation raises the attribute of its category by exactly 1 if
\* and only if it raises the level, and writes no other attribute.
C7_AttributeOnLevelUpOnly ==
    /\ \A op \in cqInFlight :
          AttributeOnLevelUpOnly(op.quest.type, op.base, op.updates)
    /\ \A i \in DOMAIN lwInFlight :
          AttributeOnLevelUpOnly(lwInFlight[i].type, lwInFlight[i].base,
                                 lwInFlight[i].updates)

\* The quest as a row without its accepted column.
WithoutAccepted(q) == [q EXCEPT !.accepted = FALSE]

\* C8: acceptQuest(questId) sets accepted on the quest with that id and on
\* no other, in the list and in the table, and leaves the characters (held
\* and stored), the completed list and the granted rewards unchanged.
C8_AcceptQuestFrame ==
    [][ \A questId \in QuestIds, ok \in BOOLEAN :
          acceptQuest(questId, ok) =>
            /\ characters' = characters
            /\ qsCharacter' = qsCharacter
            /\ csCharacter' = csCharacter
            /\ granted' = granted
            /\ qsCompletedQuests' = qsCompletedQuests
            /\ Len(qsQuests') = Len(qsQuests)
            /\ \A i \in DOMAIN qsQuests :
                  /\ WithoutAccepted(qsQuests'[i]) = WithoutAccepted(qsQuests[i])
                  /\ qsQuests'[i].accepted =
                        (qsQuests[i].accepted \/ qsQuests[i].id = questId)
            /\ { WithoutAccepted(r) : r \in questsTable' }
                  = { WithoutAccepted(r) : r \in questsTable }
            /\ \A r \in questsTable' :
                  r.id # questId => r \in questsTable ]_vars

\* C8 witness: one quest of the list has been accepted, in the list and in
\* the table, while another is still not accepted and nothing was granted.
C8_Witness ==
    /\ \E i, j \in DOMAIN qsQuests :
          /\ qsQuests[i].accepted
          /\ ~qsQuests[j].accepted
          /\ \E r \in questsTable : r.id = qsQuests[i].id /\ r.accepted
    /\ \A q \in QuestIds : granted[q] = << >>
    /\ qsCharacter # << >>

\* C9: completeQuest on a listed quest that was never accepted goes ahead:
\* the call is taken, the quest is completed, and once both writes have
\* succeeded its reward (base or class-bonus amount) has been added to the
\* stored xp exactly once; it is never added twice.
C9_DirectCompleteGrantsOnce ==
    \A q \in QuestIds :
        /\ ( /\ qsPc = "ready"
             /\ calls < MaxCalls
             /\ qsCharacter # << >>
             /\ \E i \in DOMAIN qsQuests :
                   qsQuests[i].id = q /\ ~qsQuests[i].accepted )
              => ENABLED << completeQuest(q) /\ UNCHANGED genVars >>_vars
        /\ \A i \in DOMAIN qsCompletedQuests :
              LET quest == qsCompletedQuests[i]
              IN  (quest.id = q /\ ~quest.accepted) =>
                    /\ quest.completed
                    /\ cqPc[q] # "none"
                    /\ Len(granted[q]) <= 1
                    /\ cqPc[q] = "done" =>
                          /\ Len(granted[q]) = 1
                          /\ granted[q][1] \in
                                { quest.xpReward, (quest.xpReward * 12) \div 10 }
                          /\ \A r \in questsTable : r.id = q => r.completed

\* C9 witness: a quest that was never accepted is stored as completed and
\* its reward was added once.
C9_Witness ==
    \E i \in DOMAIN qsCompletedQuests :
        LET quest == qsCompletedQuests[i]
        IN  /\ ~quest.accepted
            /\ cqPc[quest.id] = "done"
            /\ Len(granted[quest.id]) = 1
            /\ \E r \in questsTable :
                  r.id = quest.id /\ r.completed /\ ~r.accepted

----------------------------------------------------------------------------
(* Claims about the earlier screens, stated for SpecLegacy *)

\* C2: a completeQuest call for a quest that is already completed leaves the
\* character's xp as it is: a quest's reward is added at most once.
C2_SecondCompleteKeepsXp ==
    [][ \A questId \in QuestIds :
          ( /\ completeQuestLegacy(questId)
            /\ \E i \in DOMAIN lqQuests :
                  lqQuests[i].id = questId /\ lqQuests[i].completed
            /\ lqCharacter # << >> )
              => lqCharacter'[1].xp = lqCharacter[1].xp ]_vars

\* The same for the present QuestScreen, under Spec: no quest has had its
\* reward added to the stored xp more than once.
RewardGrantedAtMostOnce == \A q \in QuestIds : Len(granted[q]) <= 1

----------------------------------------------------------------------------
(* Claims about the guild events screen, stated for SpecGuild *)

RECURSIVE CompletedRewards(_)
\* The sum of xp_reward over the first n stored events that are completed.
CompletedRewards(n) ==
    IF n = 0 THEN 0
    ELSE CompletedRewards(n - 1)
            + (IF guild_events[n].status = "completed"
               THEN guild_events[n].xp_reward ELSE 0)

\* C10: whenever no client has a joinEvent or completeEvent in flight, the
\* guild's stored xp is its initial xp plus the xp_reward of every event
\* whose status is completed.
C10_EventXpExactlyOnce ==
    (\A c \in Clients : joinOp[c] = << >> /\ completeOp[c] = << >>)
        => guilds.xp = GuildRow.xp + CompletedRewards(Len(guild_events))

\* C11: after every completeEvent the stored guild and the client's guildData
\* have level = floor(xp / 1000) + 1, and no character row has changed.
C11_GuildLevelMatchesXp ==
    [][ \A c \in Clients :
          completeEventGuildUpdate(c, TRUE) =>
            /\ guilds'.level = (guilds'.xp \div 1000) + 1
            /\ guildData'[c][1].level = (guildData'[c][1].xp \div 1000) + 1
            /\ characters' = characters ]_vars

\* C12: the stored status of a guild event only moves forward, one stage at
\* a time: from upcoming to active, from active to completed.
C12_StatusMovesForward ==
    [][ \A i \in DOMAIN guild_events :
          guild_events'[i].status # guild_events[i].status =>
            << guild_events[i].status, guild_events'[i].status >>
                \in { << "upcoming", "active" >>, << "active", "completed" >> } ]_vars

----------------------------------------------------------------------------
(* Claims about the rewards screen, stated for SpecRewards                 *)

\* The completed quests of a type, counted on the list the screen fetched.
CompletedOfType(t) ==
    Cardinality({ n \in DOMAIN rsCompletedQuests : rsCompletedQuests[n].type = t })

\* The reward is not yet earned and its requirement is met.
Eligible(reward) ==
    /\ ~reward.earned
    /\ reward.date_earned = 0
    /\ reward.requirement # Missing
    /\ CompletedOfType(reward.type) >= reward.requirement

\* C13: checkForNewRewards marks a reward earned, in its list and in the
\* store, only if the reward is not already earned and the completed quests
\* of its type are at least its requirement; and it does not end while a
\* reward it has yet to reach is unearned with its requirement met.
C13_EarnedIffRequirementMet ==
    [][ \A k \in DOMAIN checkRuns :
          LET list == checkRuns[k].updatedRewards
          IN  /\ checkForNewRewardsUpdate(k, TRUE) =>
                   /\ \A j \in DOMAIN list :
                        checkRuns'[k].updatedRewards[j] # list[j] =>
                          /\ Eligible(list[j])
                          /\ checkRuns'[k].updatedRewards[j].earned
                          /\ \A o \in DOMAIN list :
                               (o >= checkRuns[k].i /\ Eligible(list[o])) => j <= o
                   /\ \A r \in DOMAIN rewardsTable :
                        rewardsTable'[r] # rewardsTable[r] =>
                          /\ rewardsTable'[r].earned
                          /\ \E j \in DOMAIN list :
                               Eligible(list[j]) /\ list[j].id = rewardsTable[r].id
              /\ checkForNewRewardsFinish(k) =>
                   \A j \in DOMAIN list :
                     j >= checkRuns[k].i => ~Eligible(list[j]) ]_vars

\* A run has ended with 'Strength Novice' earned, on the screen and in the
\* store, while 'Speed Seeker', with one completed quest of three, is not.
C13_Witness ==
    /\ checkRuns = << >>
    /\ \E j \in DOMAIN availableRewards :
         /\ availableRewards[j].type = "strength"
         /\ availableRewards[j].earned
         /\ CompletedOfType("strength") >= availableRewards[j].requirement
    /\ \E j \in DOMAIN availableRewards :
         /\ availableRewards[j].type = "speed"
         /\ ~availableRewards[j].earned
         /\ CompletedOfType("speed") < availableRewards[j].requirement
    /\ \E r \in DOMAIN rewardsTable :
         rewardsTable[r].type = "strength" /\ rewardsTable[r].earned
    /\ \A r \in DOMAIN rewardsTable :
         rewardsTable[r].type = "speed" => ~rewardsTable[r].earned

\* C14: an earned reward is immutable: no step changes a stored reward that
\* has its earned date, no reward shown as earned is shown as unearned
\* afterwards, and the earned list never holds a reward twice.
C14_EarnedRewardImmutable ==
    [][ /\ \A r \in DOMAIN rewardsTable :
             rewardsTable[r].date_earned # 0 => rewardsTable'[r] = rewardsTable[r]
        /\ \A j \in DOMAIN availableRewards :
             availableRewards[j].earned =>
               \A o \in DOMAIN availableRewards' :
                 availableRewards'[o].title = availableRewards[j].title =>
                   availableRewards'[o].earned
        /\ \A j, o \in DOMAIN rsRewards' :
             rsRewards'[j].title = rsRewards'[o].title => j = o ]_vars

\* C17: on a generator reply that cannot be parsed or has the wrong shape,
\* generateNewRewards goes on with templated rewards, each with a numeric
\* requirement, instead of aborting; and no reward without a numeric
\* requirement is ever stored.
C17_FallbackToTemplates ==
    [][ /\ \A reply \in GeneratorReplies \ { "json" } :
             generateNewRewardsResponse(reply) =>
               /\ gnrPc' = "insert"
               /\ Len(gnrNewRewards') > 0
               /\ \A j \in DOMAIN gnrNewRewards' :
                    gnrNewRewards'[j].requirement # Missing
        /\ \A r \in DOMAIN rewardsTable' :
             rewardsTable'[r].requirement # Missing ]_vars

----------------------------------------------------------------------------
(* Claims about generateQuest, stated for SpecGenerate                     *)

\* The tier of QUEST_DIFFICULTIES with the name.
TierOf(name) ==
    QUEST_DIFFICULTIES[CHOOSE i \in DOMAIN QUEST_DIFFICULTIES :
                           QUEST_DIFFICULTIES[i].name = name]

\* C15: every quest generateQuest has produced, whatever the content reply
\* was, has its xpReward within the range of its difficulty tier.
C15_XpRewardInTier ==
    \A i \in DOMAIN newQuests :
        /\ newQuests[i].xpReward >= TierOf(newQuests[i].difficulty).lo
        /\ newQuests[i].xpReward <= TierOf(newQuests[i].difficulty).hi

\* C16: when the content request throws, answers without choices or answers
\* with text that is not JSON, generateQuest still returns a quest: its title
\* and description are the templates for its type and tier, its type is one
\* of the four, its difficulty one of the three, and it is neither accepted
\* nor completed.
C16_FallbackQuest ==
    [][ \A d \in AllQuestDraws :
          (d.api \in { "throw", "nochoices", "badjson", "nomatch" }
              /\ generateNewQuestsGenerate(d)) =>
            /\ Len(newQuests') = Len(newQuests) + 1
            /\ LET quest == newQuests'[Len(newQuests')]
               IN  /\ quest.type \in QuestTypes
                   /\ quest.difficulty \in { "easy", "medium", "hard" }
                   /\ quest.title \in { << "Fallback", quest.type, "Quest" >>,
                                        << "Epic", quest.type, "Challenge" >> }
                   /\ quest.description =
                        << "Complete a", quest.difficulty, quest.type, "workout." >>
                   /\ quest.accepted = FALSE
                   /\ quest.completed = FALSE ]_vars

\* One batch holds a quest made after a failed request and a quest made from
\* a text without JSON.
C16_Witness ==
    /\ \E i \in DOMAIN newQuests :
         newQuests[i].title = << "Fallback", newQuests[i].type, "Quest" >>
    /\ \E i \in DOMAIN newQuests :
         newQuests[i].title = << "Epic", newQuests[i].type, "Challenge" >>

\* C18: the content reply has no influence on the numbers: the quest that
\* generateQuest returns has the xpReward it would have for the same draws
\* under any other reply.
C18_ReplyIndependentXp ==
    [][ \A d \in AllQuestDraws :
          generateNewQuestsGenerate(d) =>
            \A other \in QuestReplies :
              generateQuest(FreshQuestId, d.typeIdx, d.diffIdx, d.pct, other).xpReward
                = newQuests'[Len(newQuests')].xpReward ]_vars

----------------------------------------------------------------------------
(* Claims about failed writes and character creation, stated for Spec      *)

\* What the screen lists for the quest is what the store holds for it: its
\* row in the active or in the completed list is the stored row, and it is
\* in the active list only while not stored as completed.
ListedAsStored(quests, completedQuests, table, questId) ==
    /\ \A i \in DOMAIN quests :
         quests[i].id = questId =>
           quests[i] \in table /\ ~quests[i].completed
    /\ \A i \in DOMAIN completedQuests :
         completedQuests[i].id = questId =>
           completedQuests[i] \in table /\ completedQuests[i].completed

\* C19: when the write of acceptQuest or a write of completeQuest fails, the
\* screen is left with what the store holds: the quest is listed as it is
\* stored and the character is the one held before the call.
C19_FailedWriteRestoresLocal ==
    [][ /\ \A questId \in QuestIds :
             (acceptQuest(questId, FALSE)
                 /\ qsCharacter # << >> /\ HasQuest(qsQuests, questId)) =>
               ListedAsStored(qsQuests', qsCompletedQuests', questsTable', questId)
        /\ \A op \in cqInFlight :
             (completeQuestQuestUpdate(op, FALSE)
                 \/ completeQuestCharacterUpdate(op, FALSE)) =>
               /\ ListedAsStored(qsQuests', qsCompletedQuests', questsTable',
                                 op.questId)
               /\ qsCharacter' = << op.base >> ]_vars

\* C20: a character is created at most once per account: createCharacter
\* inserts no row for a user whose character is stored, and the table never
\* holds two rows for the user.
C20_CharacterCreatedOnce ==
    [][ /\ Len(characters') <= 1
        /\ \A name \in { "", "Hero" } :
             (createCharacter(name, TRUE) /\ Len(characters) > 0) =>
               characters' = characters ]_vars

\* C21: with no character loaded, logWorkout and completeQuest write nothing
\* to the store and change nothing the screens hold.
C21_NullCharacterNoOp ==
    [][ /\ \A type \in WorkoutTypes :
             (csCharacter = << >> /\ logWorkout(type)) => UNCHANGED vars
        /\ \A questId \in QuestIds :
             (qsCharacter = << >> /\ completeQuest(questId)) => UNCHANGED vars ]_vars

\* Both screens are ready without a character while none is stored, quests
\* are listed, and logWorkout and completeQuest can be called.
C21_Witness ==
    /\ csPc = "ready" /\ csCharacter = << >> /\ ~csLoading
    /\ qsPc = "ready" /\ qsCharacter = << >> /\ Len(qsQuests) > 0
    /\ \E type \in WorkoutTypes : ENABLED logWorkout(type)
    /\ \E questId \in QuestIds :
         HasQuest(qsQuests, questId)
           /\ ENABLED (completeQuest(questId) /\ UNCHANGED genVars)
    /\ characters = << >>
    /\ cqInFlight = {}
    /\ lwInFlight = << >>

----------------------------------------------------------------------------
(* Claims about the event form, stated for SpecCreateEvent                 *)

\* The form data is what the event form asks for, with the clock at t.
ValidEventForm(formData, t) ==
    /\ Len(formData.title) >= 3
    /\ Len(formData.description) >= 10
    /\ Len(formData.reward_description) > 0
    /\ formData.xp_reward > 0
    /\ formData.start_date > t
    /\ formData.end_date > formData.start_date
    /\ formData.has_goal => (formData.goal # << >> /\ formData.goal[1] > 0)

\* C22: handleSubmit gets past its validation only with form data that is
\* valid; a submit of invalid form data builds no event, leaves the form data
\* as it is and leaves an error message; createCharacter with a blank name
\* inserts nothing and leaves the creation form as it is.
C22_InvalidInputRejected ==
    [][ /\ \A t \in 0 .. MaxClock :
             handleSubmit(t) =>
               /\ cePc' = "submitting" => ValidEventForm(ceFormData, t)
               /\ ~ValidEventForm(ceFormData, t) =>
                    /\ cePc' = "form"
                    /\ ceNewEvent' = ceNewEvent
                    /\ ceFormData' = ceFormData
                    /\ \E f \in ErrorFields : ceErrors'[f] # ""
        /\ \A ok \in BOOLEAN :
             createCharacter("", ok) =>
               /\ characters' = characters
               /\ UNCHANGED csVars ]_vars

\* A form filled in with a title of three characters and a goal of 5 was
\* let through with no message left, while the creation form of the
\* character screen is shown and no character is stored.
C22_Witness ==
    /\ cePc = "submitting"
    /\ ceNewEvent # << >>
    /\ ceNewEvent[1].goal = << 5 >>
    /\ Len(ceNewEvent[1].title) = 3
    /\ ceErrors = [f \in ErrorFields |-> ""]
    /\ csPc = "ready" /\ csCharacter = << >> /\ characters = << >>

----------------------------------------------------------------------------
(* Claims about the refill of the quest list, stated for SpecRefillOk and  *)
(* SpecRefill                                                              *)

\* C23: whenever the quest screen has finished loading and lists fewer than
\* three active quests, it eventually lists at least three, given that every
\* generation and insert succeeds; completions may happen at any time, also
\* while a batch is in flight.
C23_RefillsToThree ==
    (qsPc = "ready" /\ Len(qsQuests) < 3) ~> (Len(qsQuests) >= 3)

\* C25: at most one activation of generateNewQuests is between its guard and
\* its finally at any time, generatingQuest is set exactly while one is, and
\* so it is false again after every exit: success, insert error, exception or
\* missing user.
C25_OneBatchInFlight ==
    /\ genInFlight <= 1
    /\ generatingQuest <=> genInFlight = 1
    /\ genPc = "idle" <=> genInFlight = 0

\* A batch is in its loop while the list, with all the batch will add, is
\* short of three: the effect ran during the batch and was turned away.
C25_Witness ==
    /\ generatingQuest
    /\ genPc = "loop"
    /\ genInFlight = 1
    /\ Len(qsQuests) + Len(newQuests) + genCount < 3

\* The positions of the quest in a list.
PlacesOf(quests, questId) == { i \in DOMAIN quests : quests[i].id = questId }

\* C26: the local lists are a faithful partition: every quest that
\* completeQuest has taken, in whatever timing, stands exactly once in
\* completedQuests and not in the active list, no quest stands in both lists
\* or twice in completedQuests, and completionStats holds for each type the
\* number of quests of that type in completedQuests.
C26_ListsPartition ==
    /\ \A questId \in QuestIds :
          cqPc[questId] # "none" =>
             /\ Cardinality(PlacesOf(qsCompletedQuests, questId)) = 1
             /\ PlacesOf(qsQuests, questId) = {}
    /\ \A i \in DOMAIN qsCompletedQuests :
          /\ Cardinality(PlacesOf(qsCompletedQuests, qsCompletedQuests[i].id)) = 1
          /\ PlacesOf(qsQuests, qsCompletedQuests[i].id) = {}
    /\ \A t \in QuestTypes :
          completionStats[t] =
             Cardinality({ i \in DOMAIN qsCompletedQuests :
                              qsCompletedQuests[i].type = t })

\* Two quests of different types were completed, the writes of both are
\* still in flight, and so is a batch of generateNewQuests.
C26_Witness ==
    /\ Len(qsCompletedQuests) = 2
    /\ qsCompletedQuests[1].type # qsCompletedQuests[2].type
    /\ Cardinality(cqInFlight) = 2
    /\ generatingQuest
    /\ completionStats[qsCompletedQuests[2].type] = 1

----------------------------------------------------------------------------
(* Claims about joining events, stated for SpecGuild                       *)

\* Every successful update of joinEvent raises the stored count by one.
JoinsCounted ==
    \A c \in Clients :
        joinEventUpdate(c, TRUE) =>
            FindEvent(guild_events', joinOp[c][1].eventId).participants_count
              = FindEvent(guild_events, joinOp[c][1].eventId).participants_count + 1

\* The count of the event nobody had joined is at most the number of users.
JoinsWithinUsers ==
    FindEvent(guild_events', 1).participants_count <= NumClients

\* C27: the stored participants_count is the number of successful joinEvent
\* operations, so two concurrent joins raise it by two, and it never exceeds
\* the number of distinct users who joined.
C27_CountEqualsJoins == [][JoinsCounted /\ JoinsWithinUsers]_vars

\* A stored status that is completed stays completed.
CompletedStays ==
    \A i \in DOMAIN guild_events :
        guild_events[i].status = "completed" => guild_events'[i].status = "completed"

\* The update of completeEvent is not made on an event stored as completed.
CompletesOnlyOpen ==
    \A c \in Clients, ok \in BOOLEAN :
        completeEventUpdate(c, ok) =>
            FindEvent(guild_events, completeOp[c][1].eventId).status # "completed"

\* C28: completed is terminal: once an event's stored status is completed, no
\* later or in-flight joinEvent or completeEvent of any client changes it,
\* and completeEvent is never executed on an event whose stored status is
\* already completed.
C28_CompletedIsTerminal == [][CompletedStays /\ CompletesOnlyOpen]_vars

----------------------------------------------------------------------------
(* Claims about guild membership, stated for SpecMembers                   *)

\* C24: the leader cannot leave: no step deletes a guild_members row whose
\* stored role is leader, also when the fetch of the members failed and the
\* screen's userRole is null.
C24_LeaderRowKept ==
    [][ \A m \in guild_members : m.role = "leader" => m \in guild_members' ]_vars

\* The leader has the details open with userRole null after a failed fetch
\* of the members, while a member's delete has gone through.
C24_Witness ==
    /\ gdPc[1] = "ready"
    /\ gdGuild[1] # << >>
    /\ gdUserRole[1] = ""
    /\ CurrentMemberRole(1) = "leader"
    /\ gdPc[2] = "count"
    /\ RowsOf(2) = {}

\* C29: the guild's stored member_count is the number of its guild_members
\* rows after any sequence of joinGuild and leaveGuild, whenever none of them
\* is in flight.
C29_MemberCountMatchesRows ==
    (\A c \in Clients : jgPc[c] = "idle" /\ gdPc[c] \notin { "delete", "count" })
        => member_count = Cardinality(guild_members)

----------------------------------------------------------------------------
(* Claims about the guild chat, stated for SpecChat                        *)

\* How often the message stands in the screen's list.
TimesListed(id) == Cardinality({ i \in DOMAIN chMessages : chMessages[i] = id })

\* C30: while the chat is mounted, every message inserted for the guild
\* stands exactly once in the screen's list, in whatever order the answer of
\* fetchMessages and the INSERT callbacks arrive; stated for the moments when
\* the answer has arrived and no callback is outstanding.
C30_EveryMessageOnce ==
    (chPc = "ready" /\ chSubscribed /\ chPayloads = << >>)
        => \A i \in DOMAIN guild_messages :
              i > Len(StoredMessages) => TimesListed(guild_messages[i]) = 1

============================================================================
